---- MODULE Spec2Model ----
(***************************************************************************)
(* Model of the web-search acquisition subsystem of skepticism             *)
(* (src/services/rag.service.ts, class WebSearch).                         *)
(*                                                                         *)
(*   Spec        one run of WebSearch._runSearchPlan over a search plan,   *)
(*               with the backend (searchAndExtract) answering each step   *)
(*   SpecExtract one call of WebSearch.extractContents, its per-URL tasks  *)
(*               settling in any order                                     *)
(*   SpecFetch   one call of WebSearch._fetchWithRetry, attempt by attempt *)
(*   SpecValidate  one call of getTopUrls, smartSearch or extractContents, *)
(*               up to its first request                                   *)
(*   SpecAcquire one call of RAGService.addFromWebSearch or                *)
(*               addFromComprehensiveSearch around a run                   *)
(*   SpecTopics  one query through extractTopics, analyzeTopicRelevance    *)
(*               and WebSearch._buildSearchPlan (utils/stopwords is in     *)
(*               src/README.md)                                            *)
(*   SpecRelevance one call of analyzeTopicRelevance                       *)
(*   SpecCli     one call of RAGCLI.handleSearch                           *)
(*   SpecTerminating  Spec with the run resumed after every await          *)
(*   SpecConcurrent  two calls of _runSearchPlan on one instance           *)
(*   SpecContent one call of WebSearch._extractMainContent                 *)
(*   SpecRag     one call of RAGService.search                             *)
(***************************************************************************)
EXTENDS Integers, Sequences, FiniteSets, TLC

VARIABLES
    \* ---- _runSearchPlan ------------------------------------------------
    searchPlan,         \* parameter searchPlan: SearchPlanStep[]
    desiredResults,     \* parameter desiredResults
    aggregatedResults,  \* const aggregatedResults: ExtractedContent[]
    seenUrls,           \* const seenUrls = new Set<string>()
    executedQueries,    \* const executedQueries: string[]
    stepResults,        \* const stepResults: Array<{step, results}>
    stepIndex,          \* position of the for..of loop in searchPlan (1-based)
    remainingSlots,     \* const remainingSlots of the current iteration
    searchCalls,        \* calls made to searchAndExtract: <<[query, limit]>>
    stepRawResults,     \* const stepRawResults of the last iteration that got one
    pc,                 \* "loop" | "awaiting" | "returned" | "raised"
    failure             \* error that left _runSearchPlan, "none" if none

runVars == <<searchPlan, desiredResults, aggregatedResults, seenUrls,
             executedQueries, stepResults, stepIndex, remainingSlots,
             searchCalls, stepRawResults, pc, failure>>

VARIABLES
    \* ---- extractContents ------------------------------------------------
    urls,               \* parameter urls: string[]
    taskStatus,         \* promise of each _extractSingleContent(url):
                        \*   [status, reason], <<>> before the tasks exist
    ecPc,               \* "called" | "waiting" | "returned" | "raised"
    ecResult,           \* the array extractContents resolves to
    ecError             \* the error extractContents rejects with

extractVars == <<urls, taskStatus, ecPc, ecResult, ecError>>

VARIABLES
    \* ---- _fetchWithRetry ------------------------------------------------
    retryAttempts,      \* this._config.retryAttempts
    attempt,            \* loop variable attempt
    fpc,                \* "loopTest" | "fetching" | "reading" | "delaying"
                        \*   | "returned" | "thrown"
    response,           \* status of the response of the current attempt, 0 if none
    lastError,          \* let lastError: Error
    attemptLog,         \* one entry per attempt that ended: [response, error]
    fetchOutcome,       \* body returned or error thrown, NoOutcome before
    timer,              \* setTimeout of the current attempt:
                        \*   "none" | "armed" | "cleared" | "fired"
    elapsed,            \* time units since the current attempt issued fetch,
                        \*   0 when no attempt is in flight
    retryDelay,         \* this._config.retryDelay
    delays              \* calls of this._delay: [after, ms], `after` the
                        \*   attempt that had just failed

fetchVars == <<retryAttempts, attempt, fpc, response, lastError, attemptLog,
               fetchOutcome, timer, elapsed, retryDelay, delays>>

VARIABLES
    \* ---- getTopUrls / smartSearch up to their first request -------------
    entry,              \* the method called: "getTopUrls" | "smartSearch"
    query,              \* parameter query, a sequence of characters
    vpc,                \* "called" | "searching" | "searched" | "raised"
    vError,             \* the error the call rejects with
    searchesStarted     \* requests issued by _performSearch

validateVars == <<entry, query, vpc, vError, searchesStarted>>

VARIABLES
    \* ---- RAGService.addFromWebSearch / addFromComprehensiveSearch -------
    method,             \* "addFromWebSearch" | "addFromComprehensiveSearch"
    maxResults,         \* parameter maxResults / options.maxResults
    apc,                \* "searching" | "ingesting" | "returned" | "raised"
    successfulContents, \* const successfulContents, before .slice
    documentsAdded,     \* documents handed to addDocuments and stored
    aError              \* message of the error the method rejects with

acquireVars == <<method, maxResults, apc, successfulContents, documentsAdded,
                 aError>>

VARIABLES
    \* ---- extractTopics, analyzeTopicRelevance, _buildSearchPlan ---------
    originalQuery,      \* the query of the search, a sequence of characters
    options,            \* parameter options of extractTopics
    tpc,                \* "called" | "extracted" | "reExtracted" | "ranked"
                        \*   | "planned"
    topicAnalysis,      \* extractTopics(originalQuery, options)
    reAnalysis,         \* extractTopics(topicAnalysis.cleanedQuery, options)
    topics,             \* parameter topics of analyzeTopicRelevance
    relevanceAnalysis,  \* what analyzeTopicRelevance returns
    planInput,          \* the other arguments of _buildSearchPlan
    plan,               \* const plan: SearchPlanStep[] of _buildSearchPlan
    handedPlan          \* const searchPlan as it is given to _runSearchPlan

topicVars == <<originalQuery, options, tpc, topicAnalysis, reAnalysis, topics,
               relevanceAnalysis, planInput, plan, handedPlan>>

VARIABLES
    \* ---- RAGCLI.handleSearch --------------------------------------------
    cliQuery,           \* parameter query of handleSearch
    hsPc,               \* "called" | "searching" | "acquiring" | "answering"
                        \*   | "displayed" | "failed" | "refused"
    initialResult,      \* const initialResult, NoResult before it exists
    needsMoreContent,   \* const needsMoreContent
    finalResult,        \* const finalResult, NoResult before it exists
    displayed,          \* result given to displaySearchResult:
                        \*   "none" | "initial" | "final"
    localSearches,      \* calls of ragService.search
    webAcquisitions     \* calls of ragService.addFromComprehensiveSearch

VARIABLES
    \* ---- two calls of _runSearchPlan on one WebSearch instance ----------
    runs,               \* the local constants of each call, by call
    backend             \* ranked URLs the search engine answers, by query

concurrentVars == <<runs, backend>>

VARIABLES
    \* ---- _extractMainContent ------------------------------------------
    page,               \* $: the text of the elements each selector matches
    minContentLength,   \* this._config.minContentLength
    mcPc,               \* "called" | "returned"
    content,            \* the string returned
    selected            \* the selector whose text was returned, "body" for
                        \*   the fallback, "none" before the return

contentVars == <<page, minContentLength, mcPc, content, selected>>

VARIABLES
    \* ---- RAGService.search ----------------------------------------------
    includeWebSearch,   \* searchQuery.includeWebSearch
    webSearchResults,   \* searchQuery.webSearchResults, 0 for undefined
    topK,               \* const topK
    rsPc,               \* "embedding" | "lookup" | "enhancing" | "relookup"
                        \*   | "generating" | "returned" | "thrown"
    relevantChunks,     \* let relevantChunks: how many chunks it holds
    firstChunks,        \* how many the first lookup returned, -1 before
    lookups,            \* calls of this.vectorStore.search
    enrichments,        \* calls of this.addFromWebSearch: the maxResults
                        \*   given to each
    enrichmentFailed,   \* addFromWebSearch rejected
    ragAnswer,          \* the RAGResponse returned, NoResult before
    ragError            \* where the error search throws came from

ragVars == <<includeWebSearch, webSearchResults, topK, rsPc, relevantChunks,
             firstChunks, lookups, enrichments, enrichmentFailed, ragAnswer,
             ragError>>

\* state of the operations modelled further below
restVars == <<concurrentVars, contentVars, ragVars>>

cliVars == <<cliQuery, hsPc, initialResult, needsMoreContent, finalResult,
             displayed, localSearches, webAcquisitions>>

\* state of the callers of the three operations above
outerVars == <<validateVars, acquireVars, topicVars, cliVars, restVars>>

vars == <<runVars, extractVars, fetchVars, outerVars>>

----------------------------------------------------------------------------
(* Bounds of the model *)
MaxPlanLen == 2      \* steps in a plan
MaxDesired == 2      \* largest desiredResults
MaxLimit   == 2      \* largest step.limit
MaxRanked  == 2      \* search hits left after _filterResults
MaxUrls    == 3      \* URLs handed to extractContents
MaxRetryAttempts == 3   \* largest configured retryAttempts
TimeoutTicks == 2       \* this._config.timeout, in time units of the model
MaxWords == 2           \* words of a query built freely from the vocabulary
MaxStopWords == 3       \* stop words in a query built to a pattern
MaxContentWords == 3    \* content words in a query built to a pattern
MaxTopicList == 3       \* topics handed to analyzeTopicRelevance directly
MaxPlanDesired == 5     \* largest desiredResults handed to _buildSearchPlan
MaxVariants == 4        \* largest options.maxVariants of comprehensiveSearch
MaxRetryDelay == 2      \* largest configured retryDelay, in time units
MaxTextLen == 4         \* longest text of the elements of one selector
MaxMinContentLength == 4 \* largest configured minContentLength
MaxTopK == 3            \* largest topK of a search
MaxSources == 4         \* sources of an answer of ragService.search
MaxQueryLen == 3        \* characters in a query handed to _validateQuery

----------------------------------------------------------------------------
(* Generic helpers *)
Min(a, b) == IF a <= b THEN a ELSE b
Max(a, b) == IF a >= b THEN a ELSE b

BoundedSeq(S, n) == UNION {[1..k -> S] : k \in 0..n}

\* Array.prototype.slice(0, n) for n >= 0
Slice(s, n) == SubSeq(s, 1, Min(n, Len(s)))

----------------------------------------------------------------------------
(* URLs are strings, modelled as sequences of characters.  "/" first stands *)
(* for a relative reference, which _cleanUrl returns unchanged.             *)
UrlA        == <<"a">>
UrlB        == <<"b">>
UrlC        == <<"c">>
UrlAPadded  == <<"a", " ">>
UrlRelative == <<"/", "a">>
Urls        == {UrlA, UrlB, UrlC, UrlAPadded, UrlRelative}

RECURSIVE TrimStart(_)
TrimStart(s) == IF s # <<>> /\ Head(s) = " " THEN TrimStart(Tail(s)) ELSE s

RECURSIVE TrimEnd(_)
TrimEnd(s) ==
    IF s # <<>> /\ s[Len(s)] = " " THEN TrimEnd(SubSeq(s, 1, Len(s) - 1)) ELSE s

\* String.prototype.trim
Trim(s) == TrimEnd(TrimStart(s))

\* new URL(url) succeeds: an absolute URL, surrounding blanks ignored
UrlParses(u) == Trim(u) # <<>> /\ Head(Trim(u)) # "/"

----------------------------------------------------------------------------
(* ExtractedContent, reduced to the fields the engine reads *)
NoError == "none"

SuccessRecord(u) == [url |-> u, success |-> TRUE, error |-> NoError]

FailureRecord(u, message) == [url |-> u, success |-> FALSE, error |-> message]

----------------------------------------------------------------------------
(* SearchPlanStep: {query, reason, optional?, limit?}.  limit is <<>> when  *)
(* the step declares none, <<n>> otherwise; reason is a label only.  The    *)
(* step at position i of a plan carries the query "q<i>".                   *)
QueryAt(i) == "q" \o ToString(i)

Queries == {QueryAt(i) : i \in 1..MaxPlanLen}

StepLimits == {<<>>} \cup {<<n>> : n \in 1..MaxLimit}

SearchPlanStep == [query : Queries, optional : BOOLEAN, limit : StepLimits]

----------------------------------------------------------------------------
(* WebSearch.getTopUrls, after _performSearch and _filterResults:           *)
(* filteredResults.slice(0, effectiveLimit).map(result => result.url)       *)
GetTopUrls(filteredResults, limit) == Slice(filteredResults, limit)

(* WebSearch._validateUrls: the error it throws, NoError when it returns *)
ValidateUrls(urlList) ==
    IF Len(urlList) = 0 THEN "EmptyUrlList"
    ELSE IF \E i \in 1..Len(urlList) : ~UrlParses(urlList[i]) THEN "InvalidUrl"
    ELSE NoError

(* Settled state of the promise of one _extractSingleContent(url): it      *)
(* fulfils with the extraction or rejects with the error of the fetch.      *)
RejectionReasons == {"HTTP 500", "aborted"}

Pending == [status |-> "pending", reason |-> NoError]

Fulfilled == [status |-> "fulfilled", reason |-> NoError]

Rejected(reason) == [status |-> "rejected", reason |-> reason]

SettledStates == {Fulfilled} \cup {Rejected(r) : r \in RejectionReasons}

(* WebSearch.extractContents, the map over the Promise.allSettled results *)
SettledToRecords(urlList, settled) ==
    [i \in 1..Len(urlList) |->
        IF settled[i].status = "fulfilled"
        THEN SuccessRecord(urlList[i])
        ELSE FailureRecord(urlList[i], settled[i].reason)]

----------------------------------------------------------------------------
(* WebSearch._filterNewResults(results, seenUrls): the filtered list and    *)
(* the set seenUrls as the call leaves it                                   *)
RECURSIVE FilterNewFrom(_, _, _)
FilterNewFrom(results, seen, filtered) ==
    IF results = <<>> THEN [filtered |-> filtered, seenUrls |-> seen]
    ELSE LET result == Head(results)
             url    == Trim(result.url)
         IN  IF url = <<>> THEN FilterNewFrom(Tail(results), seen, filtered)
             ELSE IF url \in seen THEN FilterNewFrom(Tail(results), seen, filtered)
             ELSE FilterNewFrom(Tail(results), seen \cup {url},
                                Append(filtered, result))

RECURSIVE FilterNoTrimFrom(_, _, _)
FilterNoTrimFrom(results, seen, filtered) ==
    IF results = <<>> THEN [filtered |-> filtered, seenUrls |-> seen]
    ELSE LET result == Head(results)
             url    == result.url
         IN  IF url = <<>> THEN FilterNoTrimFrom(Tail(results), seen, filtered)
             ELSE IF url \in seen THEN FilterNoTrimFrom(Tail(results), seen, filtered)
             ELSE FilterNoTrimFrom(Tail(results), seen \cup {url},
                                   Append(filtered, result))

\* _filterNewResults comparing the URLs as given, without trim()
FilterNewResultsNoTrim(results, seen) == FilterNoTrimFrom(results, seen, <<>>)

\* _filterNewResults returning the new results last first
FilterNewResultsReversed(results, seen) ==
    LET new == FilterNewFrom(results, seen, <<>>)
        n   == Len(new.filtered)
    IN  [filtered |-> [i \in 1..n |-> new.filtered[n + 1 - i]],
         seenUrls |-> new.seenUrls]

FilterNewResults(results, seen) == FilterNewFrom(results, seen, <<>>)

----------------------------------------------------------------------------
(* _runSearchPlan *)

\* aggregatedResults.length counted as the number of recorded steps
AcceptedCountSteps == Len(stepResults)

\* aggregatedResults.length
AcceptedCount == Len(aggregatedResults)

\* queryLimit without the cap by remainingSlots
QueryLimitUncapped(step, slots) ==
    IF step.limit # <<>> /\ step.limit[1] # 0 THEN step.limit[1] ELSE slots

\* const queryLimit = step.limit ? Math.min(step.limit, remainingSlots) : remainingSlots
QueryLimit(step, slots) ==
    IF step.limit # <<>> /\ step.limit[1] # 0
    THEN Min(step.limit[1], slots)
    ELSE slots

InitRun ==
    /\ searchPlan \in {p \in BoundedSeq(SearchPlanStep, MaxPlanLen) :
            Len(p) >= 1 /\ \A i \in 1..Len(p) : p[i].query = QueryAt(i)}
    /\ desiredResults \in 1..MaxDesired
    /\ aggregatedResults = <<>>
    /\ seenUrls = {}
    /\ executedQueries = <<>>
    /\ stepResults = <<>>
    /\ stepIndex = 1
    /\ remainingSlots = 0
    /\ searchCalls = <<>>
    /\ stepRawResults = <<>>
    /\ pc = "loop"
    /\ failure = NoError

\* a loop that would not await searchAndExtract before moving on: the search
\* of the next step is issued while the one of the current step is pending
LoopHeadConcurrent ==
    /\ pc = "loop" \/ (pc = "awaiting" /\ stepIndex < Len(searchPlan))
    /\ LET index == IF pc = "awaiting" THEN stepIndex + 1 ELSE stepIndex IN
       IF index > Len(searchPlan)
       THEN /\ pc' = "returned"
            /\ UNCHANGED <<stepIndex, remainingSlots, searchCalls>>
       ELSE LET step == searchPlan[index] IN
            IF step.optional /\ AcceptedCount >= desiredResults
            THEN /\ stepIndex' = index + 1
                 /\ UNCHANGED <<pc, remainingSlots, searchCalls>>
            ELSE LET slots == desiredResults - AcceptedCount IN
                 IF slots <= 0
                 THEN /\ pc' = "returned"
                      /\ UNCHANGED <<stepIndex, remainingSlots, searchCalls>>
                 ELSE /\ remainingSlots' = slots
                      /\ searchCalls' = Append(searchCalls,
                            [query |-> step.query,
                             limit |-> Max(QueryLimit(step, slots), 1)])
                      /\ pc' = "awaiting"
                      /\ stepIndex' = index
    /\ UNCHANGED <<searchPlan, desiredResults, aggregatedResults, seenUrls,
                   executedQueries, stepResults, stepRawResults, failure,
                   extractVars, fetchVars, outerVars>>

\* Head of one iteration of `for (const step of searchPlan)`, up to the
\* call of searchAndExtract; the return after the loop when the plan is over.
LoopHead ==
    /\ pc = "loop"
    /\ IF stepIndex > Len(searchPlan)
       THEN /\ pc' = "returned"
            /\ UNCHANGED <<stepIndex, remainingSlots, searchCalls>>
       ELSE LET step == searchPlan[stepIndex] IN
            IF step.optional /\ AcceptedCount >= desiredResults
            THEN /\ stepIndex' = stepIndex + 1
                 /\ UNCHANGED <<pc, remainingSlots, searchCalls>>
            ELSE LET slots == desiredResults - AcceptedCount IN
                 IF slots <= 0
                 THEN /\ pc' = "returned"
                      /\ UNCHANGED <<stepIndex, remainingSlots, searchCalls>>
                 ELSE /\ remainingSlots' = slots
                      /\ searchCalls' = Append(searchCalls,
                            [query |-> step.query,
                             limit |-> Max(QueryLimit(step, slots), 1)])
                      /\ pc' = "awaiting"
                      /\ UNCHANGED stepIndex
    /\ UNCHANGED <<searchPlan, desiredResults, aggregatedResults, seenUrls,
                   executedQueries, stepResults, stepRawResults, failure,
                   extractVars, fetchVars, outerVars>>

\* searchAndExtract rejects because getTopUrls did: the query is refused by
\* _validateQuery or the result page could not be fetched after all retries.
\* _runSearchPlan has no handler around the call.
SearchRejects ==
    /\ pc = "awaiting"
    /\ pc' = "raised"
    /\ failure' = "SearchFailed"
    /\ UNCHANGED <<searchPlan, desiredResults, aggregatedResults, seenUrls,
                   executedQueries, stepResults, stepIndex, remainingSlots,
                   searchCalls, stepRawResults, extractVars, fetchVars, outerVars>>

\* getTopUrls resolves, and extractContents rejects in _validateUrls.
ExtractRejects ==
    /\ pc = "awaiting"
    /\ \E filteredResults \in BoundedSeq(Urls, MaxRanked) :
         LET call == searchCalls[Len(searchCalls)]
             topUrls == GetTopUrls(filteredResults, call.limit)
         IN  /\ ValidateUrls(topUrls) # NoError
             /\ failure' = ValidateUrls(topUrls)
    /\ pc' = "raised"
    /\ UNCHANGED <<searchPlan, desiredResults, aggregatedResults, seenUrls,
                   executedQueries, stepResults, stepIndex, remainingSlots,
                   searchCalls, stepRawResults, extractVars, fetchVars, outerVars>>

\* an iteration that would end without moving to the next step of the plan
StepCompletesInPlace ==
    /\ pc = "awaiting"
    /\ \E filteredResults \in BoundedSeq(Urls, MaxRanked) :
         LET call == searchCalls[Len(searchCalls)]
             topUrls == GetTopUrls(filteredResults, call.limit)
         IN  /\ ValidateUrls(topUrls) = NoError
             /\ \E settled \in [1..Len(topUrls) -> SettledStates] :
                  LET step           == searchPlan[stepIndex]
                      raw            == SettledToRecords(topUrls, settled)
                      new            == FilterNewResults(raw, seenUrls)
                      newResults     == Slice(new.filtered, remainingSlots)
                  IN  /\ stepRawResults' = raw
                      /\ seenUrls' = new.seenUrls
                      /\ executedQueries' = Append(executedQueries, step.query)
                      /\ aggregatedResults' = aggregatedResults \o newResults
                      /\ stepResults' = Append(stepResults,
                                           [step |-> step, results |-> newResults])
    /\ IF AcceptedCount' >= desiredResults
       THEN pc' = "returned" /\ UNCHANGED stepIndex
       ELSE pc' = "loop" /\ UNCHANGED stepIndex
    /\ UNCHANGED <<searchPlan, desiredResults, remainingSlots, searchCalls,
                   failure, extractVars, fetchVars, outerVars>>

\* searchAndExtract resolves: the rest of the iteration, from
\* _filterNewResults to the break test.
StepCompletes ==
    /\ pc = "awaiting"
    /\ \E filteredResults \in BoundedSeq(Urls, MaxRanked) :
         LET call == searchCalls[Len(searchCalls)]
             topUrls == GetTopUrls(filteredResults, call.limit)
         IN  /\ ValidateUrls(topUrls) = NoError
             /\ \E settled \in [1..Len(topUrls) -> SettledStates] :
                  LET step           == searchPlan[stepIndex]
                      raw            == SettledToRecords(topUrls, settled)
                      new            == FilterNewResults(raw, seenUrls)
                      newResults     == Slice(new.filtered, remainingSlots)
                  IN  /\ stepRawResults' = raw
                      /\ seenUrls' = new.seenUrls
                      /\ executedQueries' = Append(executedQueries, step.query)
                      /\ aggregatedResults' = aggregatedResults \o newResults
                      /\ stepResults' = Append(stepResults,
                                           [step |-> step, results |-> newResults])
    /\ IF AcceptedCount' >= desiredResults
       THEN pc' = "returned" /\ UNCHANGED stepIndex
       ELSE pc' = "loop" /\ stepIndex' = stepIndex + 1
    /\ UNCHANGED <<searchPlan, desiredResults, remainingSlots, searchCalls,
                   failure, extractVars, fetchVars, outerVars>>


NextRun == LoopHead \/ SearchRejects \/ ExtractRejects \/ StepCompletes

\* no run of _runSearchPlan in progress
IdleRun ==
    /\ searchPlan = <<>>
    /\ desiredResults = 1
    /\ aggregatedResults = <<>>
    /\ seenUrls = {}
    /\ executedQueries = <<>>
    /\ stepResults = <<>>
    /\ stepIndex = 1
    /\ remainingSlots = 0
    /\ searchCalls = <<>>
    /\ stepRawResults = <<>>
    /\ pc = "idle"
    /\ failure = NoError

----------------------------------------------------------------------------
(* extractContents: _validateUrls, then one _extractSingleContent(url) per  *)
(* URL, all started at once and awaited through Promise.allSettled          *)

\* Promise.all(tasks): rejects as soon as one task rejects
PromiseAll(tasks) ==
    IF \E i \in 1..Len(tasks) : tasks[i].status = "rejected" THEN "rejected"
    ELSE IF \A i \in 1..Len(tasks) : tasks[i].status = "fulfilled" THEN "fulfilled"
    ELSE "pending"

\* Promise.allSettled(tasks): fulfils once no task is pending, never rejects
PromiseAllSettled(tasks) ==
    IF \A i \in 1..Len(tasks) : tasks[i].status # "pending" THEN "fulfilled"
    ELSE "pending"

ExtractContentsEntered ==
    /\ urls \in BoundedSeq(Urls, MaxUrls)
    /\ taskStatus = <<>>
    /\ ecPc = "called"
    /\ ecResult = <<>>
    /\ ecError = NoError

IdleExtract ==
    /\ urls = <<>>
    /\ taskStatus = <<>>
    /\ ecPc = "idle"
    /\ ecResult = <<>>
    /\ ecError = NoError

\* extractContents up to its await: _validateUrls throws, or every task is
\* created by urls.map and the call waits
ExtractContentsCalled ==
    /\ ecPc = "called"
    /\ IF ValidateUrls(urls) # NoError
       THEN /\ ecPc' = "raised"
            /\ ecError' = ValidateUrls(urls)
            /\ UNCHANGED taskStatus
       ELSE /\ taskStatus' = [i \in 1..Len(urls) |-> Pending]
            /\ ecPc' = "waiting"
            /\ UNCHANGED ecError
    /\ UNCHANGED <<urls, ecResult, runVars, fetchVars, outerVars>>

\* _extractSingleContent(urls[i]) returns its ExtractedContent
TaskFulfils ==
    /\ \E i \in 1..Len(taskStatus) :
         /\ taskStatus[i].status = "pending"
         /\ taskStatus' = [taskStatus EXCEPT ![i] = Fulfilled]
    /\ UNCHANGED <<urls, ecPc, ecResult, ecError, runVars, fetchVars, outerVars>>

\* _extractSingleContent(urls[i]) throws: _fetchWithRetry or the parsing failed
TaskRejects ==
    /\ \E i \in 1..Len(taskStatus), reason \in RejectionReasons :
         /\ taskStatus[i].status = "pending"
         /\ taskStatus' = [taskStatus EXCEPT ![i] = Rejected(reason)]
    /\ UNCHANGED <<urls, ecPc, ecResult, ecError, runVars, fetchVars, outerVars>>

\* the await of extractContents ends: the results are mapped to records, or
\* the catch block rethrows
ExtractContentsResumes ==
    /\ ecPc = "waiting"
    /\ PromiseAllSettled(taskStatus) # "pending"
    /\ IF PromiseAllSettled(taskStatus) = "fulfilled"
       THEN /\ ecResult' = SettledToRecords(urls, taskStatus)
            /\ ecPc' = "returned"
            /\ UNCHANGED ecError
       ELSE /\ ecPc' = "raised"
            /\ ecError' = "TaskRejected"
            /\ UNCHANGED ecResult
    /\ UNCHANGED <<urls, taskStatus, runVars, fetchVars, outerVars>>

NextExtract ==
    ExtractContentsCalled \/ TaskFulfils \/ TaskRejects \/ ExtractContentsResumes

----------------------------------------------------------------------------
(* _fetchWithRetry *)

HttpStatuses == {200, 404, 500}

\* an Error, tagged with the attempt that raised it
Error(k, kind) == [attempt |-> k, kind |-> kind]

\* the body of the response of attempt k
BodyOf(k) == [attempt |-> k, kind |-> "body"]

\* `let lastError: Error` before any assignment
Undefined == [attempt |-> 0, kind |-> "undefined"]

NoOutcome == [attempt |-> 0, kind |-> "none"]

\* response.ok taken as true for every status
ResponseOkAlways(status) == TRUE

\* response.ok
ResponseOk(status) == status >= 200 /\ status <= 299

\* the loop test with < in place of <=
LoopStopsEarly(a, n) == a < n

\* attempt <= this._config.retryAttempts
LoopContinues(a, n) == a <= n

FetchWithRetryEntered ==
    /\ retryAttempts \in 0..MaxRetryAttempts
    /\ retryDelay \in 1..MaxRetryDelay
    /\ delays = <<>>
    /\ attempt = 1
    /\ fpc = "loopTest"
    /\ response = 0
    /\ lastError = Undefined
    /\ attemptLog = <<>>
    /\ fetchOutcome = NoOutcome
    /\ timer = "none"
    /\ elapsed = 0

IdleFetch ==
    /\ retryAttempts = 0
    /\ retryDelay = 1
    /\ delays = <<>>
    /\ attempt = 1
    /\ fpc = "idle"
    /\ response = 0
    /\ lastError = Undefined
    /\ attemptLog = <<>>
    /\ fetchOutcome = NoOutcome
    /\ timer = "none"
    /\ elapsed = 0

\* the argument of this._delay without the factor `attempt`
BackoffConstant(a) == retryDelay

\* this._config.retryDelay * attempt
Backoff(a) == retryDelay * a

\* the longest an attempt is observed for
MaxElapsed == TimeoutTicks + 1

\* the catch block: lastError = error; delay and continue when another
\* attempt is left, else fall through to the loop increment
Catch(error, status) ==
    /\ lastError' = error
    /\ attemptLog' = Append(attemptLog, [response |-> status, error |-> error.kind])
    /\ elapsed' = 0
    /\ IF attempt < retryAttempts
       THEN /\ fpc' = "delaying"
            /\ delays' = Append(delays, [after |-> attempt,
                                         ms |-> Backoff(attempt)])
            /\ UNCHANGED attempt
       ELSE /\ fpc' = "loopTest"
            /\ attempt' = attempt + 1
            /\ UNCHANGED delays

\* the loop test passes: the attempt arms its timer (setTimeout(() =>
\* controller.abort(), timeout)) and issues fetch(url, {signal})
AttemptStarts ==
    /\ fpc = "loopTest"
    /\ LoopContinues(attempt, retryAttempts)
    /\ fpc' = "fetching"
    /\ response' = 0
    /\ timer' = "armed"
    /\ elapsed' = 0
    /\ UNCHANGED <<retryAttempts, retryDelay, delays, attempt, lastError, attemptLog, fetchOutcome,
                   runVars, extractVars, outerVars>>

\* the loop test fails: throw lastError
ThrowLastError ==
    /\ fpc = "loopTest"
    /\ ~LoopContinues(attempt, retryAttempts)
    /\ fpc' = "thrown"
    /\ fetchOutcome' = lastError
    /\ UNCHANGED <<retryAttempts, retryDelay, delays, attempt, response, lastError, attemptLog,
                   timer, elapsed, runVars, extractVars, outerVars>>

\* fetch resolves with a response: clearTimeout(timeoutId), then a response
\* that is not ok throws
FetchResolves ==
    /\ fpc = "fetching"
    /\ timer' = "cleared"
    /\ \E status \in HttpStatuses :
         /\ response' = status
         /\ IF ResponseOk(status)
            THEN /\ fpc' = "reading"
                 /\ UNCHANGED <<attempt, lastError, attemptLog, elapsed,
                                delays>>
            ELSE Catch(Error(attempt, "HTTP " \o ToString(status)), status)
    /\ UNCHANGED <<retryAttempts, retryDelay, fetchOutcome, runVars, extractVars, outerVars>>

\* fetch rejects on a network failure; the timer of the attempt stays armed,
\* its controller has no request left to abort
FetchRejects ==
    /\ fpc = "fetching"
    /\ Catch(Error(attempt, "network"), 0)
    /\ UNCHANGED <<retryAttempts, retryDelay, response, fetchOutcome, timer,
                   runVars, extractVars, outerVars>>

\* the timer callback runs controller.abort(): the pending fetch rejects
\* with an AbortError
TimeoutFires ==
    /\ fpc = "fetching"
    /\ timer = "armed"
    /\ elapsed >= TimeoutTicks
    /\ timer' = "fired"
    /\ Catch(Error(attempt, "aborted"), 0)
    /\ UNCHANGED <<retryAttempts, retryDelay, response, fetchOutcome, runVars, extractVars, outerVars>>

\* one time unit passes while the attempt is in flight; an armed timer
\* fires no later than its deadline
Tick ==
    /\ fpc \in {"fetching", "reading"}
    /\ elapsed < MaxElapsed
    /\ ~(timer = "armed" /\ elapsed >= TimeoutTicks)
    /\ elapsed' = elapsed + 1
    /\ UNCHANGED <<retryAttempts, retryDelay, delays, attempt, fpc, response, lastError,
                   attemptLog, fetchOutcome, timer, runVars, extractVars, outerVars>>

\* response.text() resolves: return the body
BodyReadResolves ==
    /\ fpc = "reading"
    /\ fpc' = "returned"
    /\ fetchOutcome' = BodyOf(attempt)
    /\ attemptLog' = Append(attemptLog, [response |-> response, error |-> NoError])
    /\ elapsed' = 0
    /\ UNCHANGED <<retryAttempts, retryDelay, delays, attempt, response, lastError, timer,
                   runVars, extractVars, outerVars>>

\* response.text() rejects inside the try block
BodyReadRejects ==
    /\ fpc = "reading"
    /\ Catch(Error(attempt, "body"), response)
    /\ UNCHANGED <<retryAttempts, retryDelay, response, fetchOutcome, timer,
                   runVars, extractVars, outerVars>>

\* this._delay(...) resolves: continue with the next attempt
DelayElapses ==
    /\ fpc = "delaying"
    /\ attempt' = attempt + 1
    /\ fpc' = "loopTest"
    /\ UNCHANGED <<retryAttempts, retryDelay, delays, response, lastError, attemptLog, fetchOutcome,
                   timer, elapsed, runVars, extractVars, outerVars>>

NextFetch ==
    \/ AttemptStarts \/ ThrowLastError \/ FetchResolves \/ FetchRejects
    \/ BodyReadResolves \/ BodyReadRejects \/ DelayElapses
    \/ TimeoutFires \/ Tick

----------------------------------------------------------------------------
(* getTopUrls and smartSearch, from the call to the first search request *)

QueryChars == {" ", "a"}

QueryStrings == BoundedSeq(QueryChars, MaxQueryLen)

\* _validateQuery with the length tests on the untrimmed query
ValidateQueryNoTrim(q) ==
    IF Len(q) = 0 THEN "EmptyQuery"
    ELSE IF Len(q) < 2 THEN "QueryTooShort"
    ELSE NoError

\* _validateQuery: the error it throws, NoError when it returns
ValidateQuery(q) ==
    IF Len(q) = 0 \/ Len(Trim(q)) = 0 THEN "EmptyQuery"
    ELSE IF Len(Trim(q)) < 2 THEN "QueryTooShort"
    ELSE NoError

QueryEntered ==
    /\ entry \in {"getTopUrls", "smartSearch"}
    /\ query \in QueryStrings
    /\ vpc = "called"
    /\ vError = NoError
    /\ searchesStarted = 0

IdleValidate ==
    /\ entry = "none"
    /\ query = <<>>
    /\ vpc = "idle"
    /\ vError = NoError
    /\ searchesStarted = 0

\* the first statement of both methods: this._validateQuery(query); when it
\* throws, the catch block rethrows; when it returns, the first search
\* request goes out (getTopUrls: _performSearch(query); smartSearch: the
\* primary step of the plan, through searchAndExtract and getTopUrls)
QueryValidated ==
    /\ vpc = "called"
    /\ IF ValidateQuery(query) # NoError
       THEN /\ vpc' = "raised"
            /\ vError' = ValidateQuery(query)
            /\ UNCHANGED searchesStarted
       ELSE /\ vpc' = "searching"
            /\ searchesStarted' = searchesStarted + 1
            /\ UNCHANGED vError
    /\ UNCHANGED <<entry, query, runVars, extractVars, fetchVars, restVars, acquireVars, topicVars, cliVars>>

\* _performSearch resolves with the result page
PerformSearchResolves ==
    /\ vpc = "searching"
    /\ vpc' = "searched"
    /\ UNCHANGED <<entry, query, vError, searchesStarted,
                   runVars, extractVars, fetchVars, restVars, acquireVars, topicVars, cliVars>>

\* _performSearch rejects (_fetchWithRetry gave up): the catch block rethrows
PerformSearchRejects ==
    /\ vpc = "searching"
    /\ vpc' = "raised"
    /\ vError' = "SearchFailed"
    /\ UNCHANGED <<entry, query, searchesStarted,
                   runVars, extractVars, fetchVars, restVars, acquireVars, topicVars, cliVars>>

NextValidate ==
    \/ QueryValidated \/ PerformSearchResolves \/ PerformSearchRejects
    \/ NextExtract

----------------------------------------------------------------------------
(* RAGService.addFromWebSearch and addFromComprehensiveSearch around a run *)

\* indices of results the filter
\* `content.success && content.content.length > 100` keeps, long being the
\* indices of the records whose content exceeds 100 characters
SuccessfulIndices(results, long) ==
    {i \in 1..Len(results) : results[i].success /\ i \in long}

\* the subsequence of results at the indices of keep, in order
RECURSIVE SelectFrom(_, _, _)
SelectFrom(results, keep, i) ==
    IF i > Len(results) THEN <<>>
    ELSE (IF i \in keep THEN <<results[i]>> ELSE <<>>)
           \o SelectFrom(results, keep, i + 1)

AcquisitionEntered ==
    /\ method \in {"addFromWebSearch", "addFromComprehensiveSearch"}
    /\ maxResults \in 1..MaxDesired
    /\ apc = "searching"
    /\ successfulContents = <<>>
    /\ documentsAdded = 0
    /\ aError = NoError

IdleAcquire ==
    /\ method = "none"
    /\ maxResults = 0
    /\ apc = "idle"
    /\ successfulContents = <<>>
    /\ documentsAdded = 0
    /\ aError = NoError

\* smartSearch / comprehensiveSearch resolves with the results of the run
\* (comprehensiveSearch passes them through _filterNewResults once more);
\* the usable ones are kept, and none of them means the no-content error
SearchResolves ==
    /\ apc = "searching"
    /\ pc = "returned"
    /\ LET results == IF method = "addFromComprehensiveSearch"
                      THEN FilterNewResults(aggregatedResults, {}).filtered
                      ELSE aggregatedResults
       IN  \E long \in SUBSET (1..Len(results)) :
             LET kept == SelectFrom(results, SuccessfulIndices(results, long), 1)
             IN  /\ successfulContents' = kept
                 /\ IF Len(Slice(kept, maxResults)) = 0
                    THEN apc' = "raised" /\ aError' = "NoContent"
                    ELSE apc' = "ingesting" /\ UNCHANGED aError
    /\ UNCHANGED <<method, maxResults, documentsAdded,
                   runVars, extractVars, fetchVars, restVars, validateVars, topicVars, cliVars>>

\* smartSearch / comprehensiveSearch rejects with the error that left the
\* run; the catch block rethrows it under its own prefix
SearchAborts ==
    /\ apc = "searching"
    /\ pc = "raised"
    /\ apc' = "raised"
    /\ aError' = failure
    /\ UNCHANGED <<method, maxResults, successfulContents, documentsAdded,
                   runVars, extractVars, fetchVars, restVars, validateVars, topicVars, cliVars>>

\* addDocuments resolves: the documents are stored
AddDocumentsResolves ==
    /\ apc = "ingesting"
    /\ apc' = "returned"
    /\ documentsAdded' = Len(Slice(successfulContents, maxResults))
    /\ UNCHANGED <<method, maxResults, successfulContents, aError,
                   runVars, extractVars, fetchVars, restVars, validateVars, topicVars, cliVars>>

\* addDocuments rejects (embedding or store failure)
AddDocumentsRejects ==
    /\ apc = "ingesting"
    /\ apc' = "raised"
    /\ aError' = "IngestFailed"
    /\ UNCHANGED <<method, maxResults, successfulContents, documentsAdded,
                   runVars, extractVars, fetchVars, restVars, validateVars, topicVars, cliVars>>

NextAcquire ==
    \/ NextRun
    \/ SearchResolves \/ SearchAborts
    \/ AddDocumentsResolves \/ AddDocumentsRejects

----------------------------------------------------------------------------
(* utils/stopwords: extractTopics and analyzeTopicRelevance.  Strings are   *)
(* sequences of characters; an accented letter is a character of its own,   *)
(* outside [A-Za-z0-9_].                                                     *)

LowerLetters == <<"a", "b", "c", "d", "e", "f", "g", "h", "i", "j", "k", "l", "m",
                  "n", "o", "p", "q", "r", "s", "t", "u", "v", "w", "x", "y", "z">>
UpperLetters == <<"A", "B", "C", "D", "E", "F", "G", "H", "I", "J", "K", "L", "M",
                  "N", "O", "P", "Q", "R", "S", "T", "U", "V", "W", "X", "Y", "Z">>
Digits == {"0", "1", "2", "3", "4", "5", "6", "7", "8", "9"}
UGrave == "ugrave"

\* /[A-Z]/
IsUpper(c) == \E i \in DOMAIN UpperLetters : UpperLetters[i] = c

IsLower(c) == \E i \in DOMAIN LowerLetters : LowerLetters[i] = c

\* \w
IsWordChar(c) == IsUpper(c) \/ IsLower(c) \/ c \in Digits \/ c = "_"

\* the complement of the class [^\w\s\-']
IsKept(c) == IsWordChar(c) \/ c = " " \/ c = "-" \/ c = "'"

ToLowerChar(c) ==
    IF IsUpper(c)
    THEN LowerLetters[CHOOSE i \in DOMAIN UpperLetters : UpperLetters[i] = c]
    ELSE c

\* String.prototype.toLowerCase
ToLowerCase(str) == [i \in DOMAIN str |-> ToLowerChar(str[i])]

\* .replace(/[^\w\s\-']/g, ' ')
ReplaceBySpace(str) == [i \in DOMAIN str |-> IF IsKept(str[i]) THEN str[i] ELSE " "]

\* .replace(/[^\w\s\-']/g, '')
ReplaceByNothing(str) == SelectSeq(str, IsKept)

\* length of the longest prefix of str free of blanks
RECURSIVE WordEnd(_)
WordEnd(str) ==
    IF str = <<>> \/ Head(str) = " " THEN 0 ELSE 1 + WordEnd(Tail(str))

\* .split(/\s+/) without the empty strings it yields at the two ends; the
\* callers drop them (.filter(word => word.length > 0)) or never match them
RECURSIVE SplitWords(_)
SplitWords(str) ==
    IF str = <<>> THEN <<>>
    ELSE IF Head(str) = " " THEN SplitWords(Tail(str))
    ELSE <<SubSeq(str, 1, WordEnd(str))>>
            \o SplitWords(SubSeq(str, WordEnd(str) + 1, Len(str)))

\* Array.prototype.join(' ')
RECURSIVE Join(_)
Join(words) ==
    IF words = <<>> THEN <<>>
    ELSE IF Len(words) = 1 THEN words[1]
    ELSE words[1] \o <<" ">> \o Join(Tail(words))

\* String.prototype.startsWith
StartsWith(str, prefix) ==
    Len(prefix) <= Len(str) /\ SubSeq(str, 1, Len(prefix)) = prefix

\* words written in the queries and topic lists of the model
Words ==
    [qui |-> <<"q", "u", "i">>,
     quiComma |-> <<"q", "u", "i", ",">>,
     quiCapital |-> <<"Q", "u", "i">>,
     quel |-> <<"q", "u", "e", "l">>,
     quiche |-> <<"q", "u", "i", "c", "h", "e">>,
     le |-> <<"l", "e">>,
     ciel |-> <<"c", "i", "e", "l">>,
     bleu |-> <<"b", "l", "e", "u">>,
     nuit |-> <<"n", "u", "i", "t">>,
     paris |-> <<"P", "a", "r", "i", "s">>,
     dottedAI |-> <<"A", ".", "I", ".">>,
     ai |-> <<"a", "i">>,
     gpt4 |-> <<"G", "P", "T", "-", "4">>,
     atmosphere |-> <<"a", "t", "m", "o", "s", "p", "h", "e", "r", "e">>,
     win11 |-> <<"W", "i", "n", "1", "1">>,
     gpt4o |-> <<"G", "P", "T", "-", "4", "o">>]

\* the entries of FRENCH_STOP_WORDS and ENGLISH_STOP_WORDS kept in the model
FRENCH_STOP_WORDS ==
    {<<"l", "e">>,
     <<"l", "a">>,
     <<"l", "e", "s">>,
     <<"d", "e">>,
     <<"q", "u", "i">>,
     <<"q", "u", "e">>,
     <<"e", "s", "t">>,
     <<"a">>}

ENGLISH_STOP_WORDS ==
    {<<"t", "h", "e">>,
     <<"a">>,
     <<"i">>,
     <<"i", "t">>,
     <<"u", "s">>}

Vocabulary == {<<>>, Words.le, Words.ciel, Words.paris, Words.dottedAI, Words.ai, Words.gpt4}

FirstWords == {Words.qui, Words.quiComma, Words.quiCapital, Words.quel, Words.quiche}

ContentWords == <<Words.ciel, Words.bleu, Words.nuit>>

\* n copies of word
Repeat(word, n) == [i \in 1..n |-> word]

\* queries: up to MaxWords entries of Vocabulary joined by blanks (an empty
\* entry gives a leading, trailing or lone blank), and queries made of a
\* first word, some stop words and some content words
TopicQueries ==
    {Join(ws) : ws \in BoundedSeq(Vocabulary, MaxWords)}
    \cup {Join(<<first>> \o Repeat(Words.le, nStop)
                 \o SubSeq(ContentWords, 1, nContent)) :
            first \in FirstWords, nStop \in 0..MaxStopWords,
            nContent \in 0..Min(MaxContentWords, Len(ContentWords))}

TopicExtractionOptions(language, minWordLength, maxTopics, customStopWords, preserveCapitalized) ==
    [language |-> language, minWordLength |-> minWordLength,
     maxTopics |-> maxTopics, customStopWords |-> customStopWords,
     preserveCapitalized |-> preserveCapitalized]

\* the defaults of extractTopics, the options of smartSearch and
\* comprehensiveSearch, and one departure from the defaults at a time
OptionSets ==
    {TopicExtractionOptions("both", 2, 10, {}, TRUE),
     TopicExtractionOptions("both", 3, 8, {}, TRUE),
     TopicExtractionOptions("fr", 2, 10, {}, TRUE),
     TopicExtractionOptions("en", 2, 10, {}, TRUE),
     TopicExtractionOptions("both", 1, 10, {}, TRUE),
     TopicExtractionOptions("both", 2, 1, {}, TRUE),
     TopicExtractionOptions("both", 2, 0, {}, TRUE),
     TopicExtractionOptions("both", 2, 10, {<<"C", "i", "e", "l">>}, TRUE),
     TopicExtractionOptions("both", 2, 10, {}, FALSE)}

\* stats.finalWordCount taken before the maxTopics cap
FinalWordCountUncapped(allTopics, finalTopics) == Len(allTopics)

\* stats.finalWordCount: finalTopics.length
FinalWordCount(allTopics, finalTopics) == Len(finalTopics)

\* the two tests before removedWords.push, the second one left out
PushedToRemovedShortOnly(cleanWord, minWordLength, stopWords) ==
    Len(cleanWord) < minWordLength

\* the word is pushed to removedWords: it is too short, or a stop word
PushedToRemoved(cleanWord, minWordLength, stopWords) ==
    Len(cleanWord) < minWordLength \/ cleanWord \in stopWords

ExtractTopics(q, o) ==
    LET originalWords == SplitWords(ReplaceBySpace(ToLowerCase(q)))
        stopWords ==
            (IF o.language \in {"fr", "both"} THEN FRENCH_STOP_WORDS ELSE {})
            \cup (IF o.language \in {"en", "both"} THEN ENGLISH_STOP_WORDS ELSE {})
            \cup {ToLowerCase(word) : word \in o.customStopWords}
        IsRemoved(word) ==
            Len(Trim(word)) < o.minWordLength \/ Trim(word) \in stopWords
        IsTopic(word) == ~IsRemoved(word)
        IsPushed(word) ==
            PushedToRemoved(Trim(word), o.minWordLength, stopWords)
        queryWords == SplitWords(q)
        \* query.split(/\s+/).find(...): the first match, <<>> for undefined
        OriginalWord(cleanWord) ==
            LET found == {i \in DOMAIN queryWords :
                    ReplaceByNothing(ToLowerCase(queryWords[i])) = cleanWord}
            IN  IF found = {} THEN <<>>
                ELSE queryWords[CHOOSE i \in found : \A j \in found : i <= j]
        TopicOf(word) ==
            LET originalWord == OriginalWord(Trim(word))
            IN  IF /\ o.preserveCapitalized
                   /\ originalWord # <<>>
                   /\ IsUpper(Head(originalWord))
                THEN originalWord
                ELSE Trim(word)
        accepted == SelectSeq(originalWords, IsTopic)
        allTopics == [i \in DOMAIN accepted |-> TopicOf(accepted[i])]
        removedWords == SelectSeq(originalWords, IsPushed)
        finalTopics == Slice(allTopics, o.maxTopics)
    IN  [topics |-> finalTopics,
         cleanedQuery |-> Join(finalTopics),
         removedWords |-> removedWords,
         stats |-> [originalWordCount |-> Len(originalWords),
                    finalWordCount |-> FinalWordCount(allTopics, finalTopics),
                    stopWordsRemoved |-> Len(removedWords)]]

\* no ExtractedTopics yet
NoAnalysis == [topics |-> <<>>, cleanedQuery |-> <<>>, removedWords |-> <<>>,
               stats |-> [originalWordCount |-> 0, finalWordCount |-> 0,
                          stopWordsRemoved |-> 0]]

NoPlanInput == [prioritized |-> <<>>, desiredResults |-> 0,
                maxHighPriorityTopics |-> 0, variantSlots |-> 0]

TopicsEntered ==
    /\ originalQuery \in TopicQueries
    /\ options \in OptionSets
    /\ tpc = "called"
    /\ topicAnalysis = NoAnalysis
    /\ reAnalysis = NoAnalysis
    /\ topics = <<>>
    /\ relevanceAnalysis = <<>>
    /\ planInput = NoPlanInput
    /\ plan = <<>>
    /\ handedPlan = <<>>

IdleTopics ==
    /\ originalQuery = <<>>
    /\ options = TopicExtractionOptions("both", 2, 10, {}, TRUE)
    /\ tpc = "idle"
    /\ topicAnalysis = NoAnalysis
    /\ reAnalysis = NoAnalysis
    /\ topics = <<>>
    /\ relevanceAnalysis = <<>>
    /\ planInput = NoPlanInput
    /\ plan = <<>>
    /\ handedPlan = <<>>

\* extractTopics(query, options) returns
ExtractTopicsReturns ==
    /\ tpc = "called"
    /\ topicAnalysis' = ExtractTopics(originalQuery, options)
    /\ tpc' = "extracted"
    /\ UNCHANGED <<originalQuery, options, reAnalysis, topics,
                   relevanceAnalysis, planInput, plan, handedPlan,
                   runVars, extractVars, fetchVars, restVars, validateVars, acquireVars, cliVars>>

\* extractTopics applied to the cleaned query it returned
ExtractTopicsAgain ==
    /\ tpc = "extracted"
    /\ reAnalysis' = ExtractTopics(topicAnalysis.cleanedQuery, options)
    /\ tpc' = "reExtracted"
    /\ UNCHANGED <<originalQuery, options, topicAnalysis, topics,
                   relevanceAnalysis, planInput, plan, handedPlan,
                   runVars, extractVars, fetchVars, restVars, validateVars, acquireVars, cliVars>>

\* topics handed to analyzeTopicRelevance on its own
SampleTopics == {Words.ciel, Words.bleu, Words.paris, Words.atmosphere, Words.win11,
                 Words.gpt4, Words.gpt4o}

\* let score, before the cap
Score(topic) ==
    3 * Min(Len(topic), 10)
    + (IF topic # <<>> /\ IsUpper(Head(topic)) THEN 25 ELSE 0)
    + (IF \E i \in DOMAIN topic : topic[i] \in Digits THEN 20 ELSE 0)
    + (IF \E i \in DOMAIN topic : topic[i] \in {"-", "_"} THEN 15 ELSE 0)
    + (IF \E i \in 1..(Len(topic) - 1) : IsUpper(topic[i]) /\ IsUpper(topic[i + 1])
       THEN 20 ELSE 0)
    + 10

Category(score) ==
    IF score >= 70 THEN "high" ELSE IF score >= 40 THEN "medium" ELSE "low"

\* one element of the array built by topics.map
RelevanceOf(topic) ==
    [topic |-> topic,
     relevanceScore |-> Min(Score(topic), 100),
     category |-> Category(Score(topic))]

\* a comparator that also moves b before a when the scores are equal
ComesBeforeOrTies(b, a) == b.relevanceScore >= a.relevanceScore

\* (a, b) => b.relevanceScore - a.relevanceScore is positive: b moves before a
ComesBefore(b, a) == b.relevanceScore > a.relevanceScore

\* entry put in a sorted array, after the elements it must not pass
RECURSIVE InsertSorted(_, _)
InsertSorted(sorted, e) ==
    IF sorted = <<>> THEN <<e>>
    ELSE IF ComesBefore(e, sorted[Len(sorted)])
         THEN InsertSorted(SubSeq(sorted, 1, Len(sorted) - 1), e)
                 \o <<sorted[Len(sorted)]>>
         ELSE Append(sorted, e)

\* Array.prototype.sort with that comparator: a stable sort
RECURSIVE SortByRelevance(_)
SortByRelevance(entries) ==
    IF entries = <<>> THEN <<>>
    ELSE InsertSorted(SortByRelevance(SubSeq(entries, 1, Len(entries) - 1)),
                      entries[Len(entries)])

AnalyzeTopicRelevance(topicList) ==
    SortByRelevance([i \in DOMAIN topicList |-> RelevanceOf(topicList[i])])

\* analyzeTopicRelevance called with a topic list of its own
RelevanceEntered ==
    /\ originalQuery = <<>>
    /\ options = TopicExtractionOptions("both", 2, 10, {}, TRUE)
    /\ tpc = "analysing"
    /\ topicAnalysis = NoAnalysis
    /\ reAnalysis = NoAnalysis
    /\ topics \in BoundedSeq(SampleTopics, MaxTopicList)
    /\ relevanceAnalysis = <<>>
    /\ planInput = NoPlanInput
    /\ plan = <<>>
    /\ handedPlan = <<>>

AnalyzeTopicRelevanceReturns ==
    /\ tpc = "analysing"
    /\ relevanceAnalysis' = AnalyzeTopicRelevance(topics)
    /\ tpc' = "ranked"
    /\ UNCHANGED <<originalQuery, options, topicAnalysis, reAnalysis, topics,
                   planInput, plan, handedPlan,
                   runVars, extractVars, fetchVars, restVars, validateVars, acquireVars, cliVars>>

\* smartSearch and comprehensiveSearch: analyzeTopicRelevance(topicAnalysis.topics)
RelevanceAnalysed ==
    /\ tpc = "extracted"
    /\ topics' = topicAnalysis.topics
    /\ relevanceAnalysis' = AnalyzeTopicRelevance(topicAnalysis.topics)
    /\ tpc' = "ranked"
    /\ UNCHANGED <<originalQuery, options, topicAnalysis, reAnalysis,
                   planInput, plan, handedPlan,
                   runVars, extractVars, fetchVars, restVars, validateVars, acquireVars, cliVars>>

NextRelevance == AnalyzeTopicRelevanceReturns

----------------------------------------------------------------------------
(* WebSearch._shouldFallbackToOriginal and WebSearch._buildSearchPlan *)

\* const questionWords
QuestionWords ==
    {<<"c", "o", "m", "m", "e", "n", "t">>,
     <<"p", "o", "u", "r", "q", "u", "o", "i">>,
     <<"q", "u", "e", "l">>,
     <<"q", "u", "e", "l", "l", "e">>,
     <<"q", "u", "e", "l", "s">>,
     <<"q", "u", "e", "l", "l", "e", "s">>,
     <<"o", UGrave>>, <<"q", "u", "i">>, <<"c", "o", "m", "b", "i", "e", "n">>}

\* removalRatio > 0.4 read as "at least 0.4"
RemovalRatioAtLeast04(stats) ==
    stats.originalWordCount > 0
    /\ 10 * stats.stopWordsRemoved >= 4 * stats.originalWordCount

\* removalRatio > 0.4, removalRatio being stopWordsRemoved /
\* originalWordCount, or 0 when originalWordCount is 0
RemovalRatioAbove04(stats) ==
    stats.originalWordCount > 0
    /\ 10 * stats.stopWordsRemoved > 4 * stats.originalWordCount

\* removalRatio >= 0.5
RemovalRatioAtLeast05(stats) ==
    stats.originalWordCount > 0
    /\ 2 * stats.stopWordsRemoved >= stats.originalWordCount

\* questionWords.some(word => normalized.toLowerCase().startsWith(`${word} `))
StartsWithQuestionWord(normalized) ==
    \E word \in QuestionWords :
        StartsWith(ToLowerCase(normalized), word \o <<" ">>)

ShouldFallbackToOriginal(original, analysis) ==
    LET normalized == Trim(original)
        cleanedQuery == Trim(analysis.cleanedQuery)
    IN  IF Len(normalized) = 0 THEN TRUE
        ELSE IF Len(cleanedQuery) = 0 THEN TRUE
        ELSE IF StartsWithQuestionWord(normalized)
                /\ RemovalRatioAbove04(analysis.stats) THEN TRUE
        ELSE IF analysis.stats.finalWordCount <= 2
                /\ RemovalRatioAtLeast05(analysis.stats) THEN TRUE
        ELSE FALSE

\* Math.ceil(a / b) for a >= 0, b > 0
CeilDiv(a, b) == (a + b - 1) \div b

\* the limit of the secondary step without its floor of 2
SecondaryLimitNoFloor(desired) == CeilDiv(desired, 2)

\* Math.max(2, Math.ceil(desiredResults / 2))
SecondaryLimit(desired) == Max(2, CeilDiv(desired, 2))

\* Math.max(1, Math.ceil(desiredResults / 3))
PriorityLimit(desired) == Max(1, CeilDiv(desired, 3))

\* the filter of the priority topics without its test against cleanedQuery
IsPriorityCandidateAny(topic, cleanedQuery, normalizedOriginal) ==
    Len(topic) > 0 /\ topic # normalizedOriginal

\* topic.length > 0 && topic !== cleanedQuery && topic !== normalizedOriginal
IsPriorityCandidate(topic, cleanedQuery, normalizedOriginal) ==
    Len(topic) > 0 /\ topic # cleanedQuery /\ topic # normalizedOriginal

\* a step of the plan; optional and limit absent on the primary step
PlanStep(stepQuery, reason, optional, limit) ==
    [query |-> stepQuery, reason |-> reason, optional |-> optional,
     limit |-> limit]

BuildSearchPlan(original, analysis, highRelevanceTopics, desired, maxHighPriorityTopics) ==
    LET normalizedOriginal == Trim(original)
        cleanedQuery == Trim(analysis.cleanedQuery)
        fallbackToOriginal == ShouldFallbackToOriginal(normalizedOriginal, analysis)
        base ==
            IF fallbackToOriginal \/ Len(cleanedQuery) = 0
            THEN <<PlanStep(normalizedOriginal, "original", FALSE, <<>>)>>
                 \o (IF Len(cleanedQuery) > 0 /\ cleanedQuery # normalizedOriginal
                     THEN <<PlanStep(cleanedQuery, "noStopWords", TRUE,
                                     <<SecondaryLimit(desired)>>)>>
                     ELSE <<>>)
            ELSE <<PlanStep(cleanedQuery, "optimised", FALSE, <<>>)>>
                 \o (IF cleanedQuery # normalizedOriginal
                     THEN <<PlanStep(normalizedOriginal, "context", TRUE,
                                     <<SecondaryLimit(desired)>>)>>
                     ELSE <<>>)
        highPriorityCap == Max(0, maxHighPriorityTopics)
        IsCandidate(topic) ==
            IsPriorityCandidate(topic, cleanedQuery, normalizedOriginal)
        chosen == Slice(SelectSeq(highRelevanceTopics, IsCandidate), highPriorityCap)
    IN  base \o (IF highPriorityCap > 0
                 THEN [i \in DOMAIN chosen |->
                          PlanStep(chosen[i], "priority", TRUE,
                                   <<PriorityLimit(desired)>>)]
                 ELSE <<>>)

\* relevanceAnalysis.filter(t => t.category === 'high').map(t => t.topic)
HighRelevanceTopics(analysis) ==
    LET IsHigh(e) == e.category = "high"
        high == SelectSeq(analysis, IsHigh)
    IN  [i \in DOMAIN high |-> high[i].topic]

\* relevanceAnalysis.map(t => t.topic)
PrioritizedTopics(analysis) == [i \in DOMAIN analysis |-> analysis[i].topic]

\* [...new Set(variants)]: the first occurrence of each string, in order
Distinct(strings) ==
    LET IsFirst(i) == \A j \in 1..(i - 1) : strings[j] # strings[i]
        RECURSIVE From(_)
        From(i) ==
            IF i > Len(strings) THEN <<>>
            ELSE (IF IsFirst(i) THEN <<strings[i]>> ELSE <<>>) \o From(i + 1)
    IN  From(1)

\* the two nested loops over i < j
PairsOf(topicList) ==
    LET n == Len(topicList)
        RECURSIVE FromPair(_, _)
        FromPair(i, j) ==
            IF i > n - 1 THEN <<>>
            ELSE IF j > n THEN FromPair(i + 1, i + 2)
            ELSE <<topicList[i] \o <<" ">> \o topicList[j]>>
                 \o FromPair(i, j + 1)
    IN  FromPair(1, 2)

GenerateSearchVariants(topicList) ==
    IF Len(topicList) = 0 THEN <<>>
    ELSE LET IsLong(topic) == Len(topic) > 4
             variants ==
                 <<Join(topicList)>>
                 \o (IF Len(topicList) > 2 THEN PairsOf(topicList) ELSE <<>>)
                 \o SelectSeq(topicList, IsLong)
         IN  Slice(Distinct(variants), 5)

\* comprehensiveSearch: the variants that are not yet a query of the plan,
\* the first `slots` of them, each pushed to the plan as an optional step
VariantSteps(steps, analysis, desired, slots) ==
    LET existingQueries == {steps[i].query : i \in DOMAIN steps}
        IsNew(variant) == variant \notin existingQueries
        variantQueries ==
            Slice(SelectSeq(GenerateSearchVariants(analysis.topics), IsNew),
                  slots)
    IN  [i \in DOMAIN variantQueries |->
            PlanStep(variantQueries[i], "variant", TRUE,
                     <<PriorityLimit(desired)>>)]

\* the plan is built: by smartSearch from the topics of high relevance, at
\* most 2 of them, or by comprehensiveSearch from all the topics, at most
\* maxVariants of them, followed by max(0, maxVariants - prioritizedLimit)
\* combined variants; smartSearch pushes no variant (variantSlots is 0)
PlanBuilt ==
    /\ tpc = "ranked"
    /\ \E desired \in 1..MaxPlanDesired :
         \E input \in
               {[prioritized |-> HighRelevanceTopics(relevanceAnalysis),
                 desiredResults |-> desired,
                 maxHighPriorityTopics |->
                     Min(2, Max(0, Len(HighRelevanceTopics(relevanceAnalysis)))),
                 variantSlots |-> 0]}
               \cup {[prioritized |-> PrioritizedTopics(relevanceAnalysis),
                      desiredResults |-> desired,
                      maxHighPriorityTopics |->
                          Min(maxVariants, Len(relevanceAnalysis)),
                      variantSlots |->
                          Max(0, maxVariants
                                   - Min(maxVariants, Len(relevanceAnalysis)))] :
                     maxVariants \in (-1)..MaxVariants} :
            LET built == BuildSearchPlan(originalQuery, topicAnalysis,
                                         input.prioritized, input.desiredResults,
                                         input.maxHighPriorityTopics)
            IN  /\ planInput' = input
                /\ plan' = built
                /\ handedPlan' =
                      built \o VariantSteps(built, topicAnalysis,
                                            input.desiredResults,
                                            input.variantSlots)
    /\ tpc' = "planned"
    /\ UNCHANGED <<originalQuery, options, topicAnalysis, reAnalysis, topics,
                   relevanceAnalysis,
                   runVars, extractVars, fetchVars, restVars, validateVars, acquireVars, cliVars>>

NextTopics ==
    \/ ExtractTopicsReturns \/ ExtractTopicsAgain
    \/ RelevanceAnalysed \/ PlanBuilt

----------------------------------------------------------------------------
(* RAGCLI.handleSearch.  A RAGResponse is reduced to what the gate reads:   *)
(* the number of sources, the length of the answer, and whether the answer  *)
(* includes "Je n'ai pas trouvé" (18 characters).                           *)

NoResult == [sources |-> 0, answerLength |-> 0, marker |-> FALSE, none |-> TRUE]

RAGResponse(sources, answerLength, marker) ==
    [sources |-> sources, answerLength |-> answerLength, marker |-> marker,
     none |-> FALSE]

\* what ragService.search can resolve to: the fixed answer of an empty
\* retrieval (77 characters, no source), or a generated answer over at
\* least one source
LocalResults ==
    {RAGResponse(0, 77, TRUE)}
    \cup {r \in {RAGResponse(n, len, m) :
                    n \in 1..MaxSources, len \in {0, 18, 199, 200, 201},
                    m \in BOOLEAN} :
            r.marker => r.answerLength >= 18}

\* the gate without its test of the length of the answer
NeedsMoreContentNoLength(result) == result.sources < 3 \/ result.marker

\* const needsMoreContent
NeedsMoreContent(result) ==
    result.sources < 3 \/ result.marker \/ result.answerLength < 200

HandleSearchEntered ==
    /\ cliQuery \in {<<>>, Words.ciel}
    /\ hsPc = "called"
    /\ initialResult = NoResult
    /\ needsMoreContent = FALSE
    /\ finalResult = NoResult
    /\ displayed = "none"
    /\ localSearches = 0
    /\ webAcquisitions = 0

IdleCli ==
    /\ cliQuery = <<>>
    /\ hsPc = "idle"
    /\ initialResult = NoResult
    /\ needsMoreContent = FALSE
    /\ finalResult = NoResult
    /\ displayed = "none"
    /\ localSearches = 0
    /\ webAcquisitions = 0

\* handleSearch up to its first await: an empty query is refused, else the
\* local search is issued with includeWebSearch: false
HandleSearchCalled ==
    /\ hsPc = "called"
    /\ IF cliQuery = <<>>
       THEN hsPc' = "refused" /\ UNCHANGED localSearches
       ELSE hsPc' = "searching" /\ localSearches' = localSearches + 1
    /\ UNCHANGED <<cliQuery, initialResult, needsMoreContent, finalResult,
                   displayed, webAcquisitions,
                   runVars, extractVars, fetchVars, restVars, validateVars, acquireVars,
                   topicVars>>

\* the local search resolves: the gate either starts the acquisition or
\* displays the initial result
InitialSearchResolves ==
    /\ hsPc = "searching"
    /\ \E result \in LocalResults :
         /\ initialResult' = result
         /\ needsMoreContent' = NeedsMoreContent(result)
         /\ IF NeedsMoreContent(result)
            THEN /\ hsPc' = "acquiring"
                 /\ webAcquisitions' = webAcquisitions + 1
                 /\ UNCHANGED displayed
            ELSE /\ hsPc' = "displayed"
                 /\ displayed' = "initial"
                 /\ UNCHANGED webAcquisitions
    /\ UNCHANGED <<cliQuery, finalResult, localSearches,
                   runVars, extractVars, fetchVars, restVars, validateVars, acquireVars,
                   topicVars>>

\* a call of ragService.search rejects: the catch block logs the error
SearchFails ==
    /\ hsPc \in {"searching", "answering"}
    /\ hsPc' = "failed"
    /\ UNCHANGED <<cliQuery, initialResult, needsMoreContent, finalResult,
                   displayed, localSearches, webAcquisitions,
                   runVars, extractVars, fetchVars, restVars, validateVars, acquireVars,
                   topicVars>>

\* addFromComprehensiveSearch resolves: the final local search is issued
AcquisitionResolves ==
    /\ hsPc = "acquiring"
    /\ hsPc' = "answering"
    /\ localSearches' = localSearches + 1
    /\ UNCHANGED <<cliQuery, initialResult, needsMoreContent, finalResult,
                   displayed, webAcquisitions,
                   runVars, extractVars, fetchVars, restVars, validateVars, acquireVars,
                   topicVars>>

\* addFromComprehensiveSearch rejects: the catch block logs the error
AcquisitionRejects ==
    /\ hsPc = "acquiring"
    /\ hsPc' = "failed"
    /\ UNCHANGED <<cliQuery, initialResult, needsMoreContent, finalResult,
                   displayed, localSearches, webAcquisitions,
                   runVars, extractVars, fetchVars, restVars, validateVars, acquireVars,
                   topicVars>>

\* a handleSearch that would evaluate the gate again on the re-queried
\* answer and start another acquisition
FinalSearchResolvesRegated ==
    /\ hsPc = "answering"
    /\ \E result \in LocalResults :
         /\ finalResult' = result
         /\ IF NeedsMoreContent(result)
            THEN /\ hsPc' = "acquiring"
                 /\ webAcquisitions' = webAcquisitions + 1
                 /\ UNCHANGED displayed
            ELSE /\ hsPc' = "displayed"
                 /\ displayed' = "final"
                 /\ UNCHANGED webAcquisitions
    /\ UNCHANGED <<cliQuery, initialResult, needsMoreContent, localSearches,
                   runVars, extractVars, fetchVars, restVars, validateVars, acquireVars,
                   topicVars>>

\* the final local search resolves and its result is displayed
FinalSearchResolves ==
    /\ hsPc = "answering"
    /\ \E result \in LocalResults : finalResult' = result
    /\ displayed' = "final"
    /\ hsPc' = "displayed"
    /\ UNCHANGED <<cliQuery, initialResult, needsMoreContent, localSearches,
                   webAcquisitions,
                   runVars, extractVars, fetchVars, restVars, validateVars, acquireVars,
                   topicVars>>


NextCli ==
    \/ HandleSearchCalled \/ InitialSearchResolves \/ SearchFails
    \/ AcquisitionResolves \/ AcquisitionRejects \/ FinalSearchResolves

----------------------------------------------------------------------------
(* Two calls of WebSearch._runSearchPlan in progress on one instance. The   *)
(* class has two fields, _userAgent and _config, both readonly; everything  *)
(* _runSearchPlan writes is a local constant of the call.                  *)

RunIds == {1, 2}

\* the local constants of a call of _runSearchPlan at its entry
RunLocals(steps, desired) ==
    [searchPlan |-> steps, desiredResults |-> desired,
     aggregatedResults |-> <<>>, seenUrls |-> {}, executedQueries |-> <<>>,
     stepResults |-> <<>>, stepIndex |-> 1, remainingSlots |-> 0,
     pc |-> "loop"]

\* one iteration of the loop up to the call of searchAndExtract, or the
\* return after the loop
IterationHead(run) ==
    IF run.stepIndex > Len(run.searchPlan)
    THEN [run EXCEPT !.pc = "returned"]
    ELSE LET step == run.searchPlan[run.stepIndex] IN
         IF step.optional /\ Len(run.aggregatedResults) >= run.desiredResults
         THEN [run EXCEPT !.stepIndex = @ + 1]
         ELSE LET slots == run.desiredResults - Len(run.aggregatedResults) IN
              IF slots <= 0
              THEN [run EXCEPT !.pc = "returned"]
              ELSE [run EXCEPT !.remainingSlots = slots, !.pc = "awaiting"]

\* searchAndExtract(step.query, searchEngine, Math.max(queryLimit, 1)) when
\* every page is fetched
SearchAndExtract(ranked, step, slots) ==
    LET topUrls == GetTopUrls(ranked, Max(QueryLimit(step, slots), 1))
    IN  [i \in 1..Len(topUrls) |-> SuccessRecord(topUrls[i])]

\* the rest of the iteration, `seen` being the set given to _filterNewResults
IterationTail(run, seen, raw) ==
    LET step       == run.searchPlan[run.stepIndex]
        new        == FilterNewResults(raw, seen)
        newResults == Slice(new.filtered, run.remainingSlots)
        accepted   == run.aggregatedResults \o newResults
    IN  [run EXCEPT
            !.seenUrls = new.seenUrls,
            !.executedQueries = Append(@, step.query),
            !.aggregatedResults = accepted,
            !.stepResults = Append(@, [step |-> step, results |-> newResults]),
            !.pc = IF Len(accepted) >= run.desiredResults
                   THEN "returned" ELSE "loop",
            !.stepIndex = IF Len(accepted) >= run.desiredResults
                          THEN @ ELSE @ + 1]

\* a seen-URL set kept on the instance and read by every call
SeenUrlsShared(r) == UNION {runs[k].seenUrls : k \in RunIds}

\* const seenUrls = new Set<string>() of call r
SeenUrlsOf(r) == runs[r].seenUrls

\* plans of steps without a limit of their own
UnlimitedPlans ==
    {p \in BoundedSeq([query : Queries, optional : BOOLEAN, limit : {<<>>}],
                      MaxPlanLen) :
        Len(p) >= 1 /\ \A i \in 1..Len(p) : p[i].query = QueryAt(i)}

RankedLists == {l \in BoundedSeq({UrlA, UrlB}, MaxRanked) : Len(l) >= 1}

ConcurrentRunsEntered ==
    /\ runs \in [RunIds -> {RunLocals(steps, desired) :
                               steps \in UnlimitedPlans,
                               desired \in 1..MaxDesired}]
    /\ backend \in [Queries -> RankedLists]

IdleConcurrent ==
    /\ runs = [r \in RunIds |-> RunLocals(<<>>, 1)]
    /\ backend = [q \in Queries |-> <<>>]


\* call r runs up to its next await, or returns
RunAdvances(r) ==
    /\ runs[r].pc = "loop"
    /\ runs' = [runs EXCEPT ![r] = IterationHead(runs[r])]
    /\ UNCHANGED <<backend, runVars, extractVars, fetchVars, validateVars,
                   acquireVars, topicVars, cliVars, contentVars, ragVars>>

\* the searchAndExtract awaited by call r resolves
RunResumes(r) ==
    /\ runs[r].pc = "awaiting"
    /\ LET run  == runs[r]
           step == run.searchPlan[run.stepIndex]
           raw  == SearchAndExtract(backend[step.query], step,
                                    run.remainingSlots)
       IN  runs' = [runs EXCEPT ![r] = IterationTail(run, SeenUrlsOf(r), raw)]
    /\ UNCHANGED <<backend, runVars, extractVars, fetchVars, validateVars,
                   acquireVars, topicVars, cliVars, contentVars, ragVars>>

NextConcurrent == \E r \in RunIds : RunAdvances(r) \/ RunResumes(r)

----------------------------------------------------------------------------
(* WebSearch._extractMainContent and _cleanText. A page is given by the    *)
(* text cheerio returns for each selector ($(selector).text()), Absent     *)
(* when the selector matches no element, and by the text of its body.      *)

\* const selectors, in the order of the array
Selectors ==
    <<"article", "[role=main]", ".content", ".post-content",
      ".entry-content", ".article-body", "main", ".main-content">>

\* $(selector).length == 0
Absent == <<"absent">>

\* .replace(/\s+/g, ' '): each run of blanks becomes one blank
RECURSIVE CollapseBlanks(_)
CollapseBlanks(text) ==
    IF text = <<>> THEN <<>>
    ELSE IF Head(text) = " "
         THEN <<" ">> \o CollapseBlanks(TrimStart(text))
         ELSE <<Head(text)>> \o CollapseBlanks(Tail(text))

\* _cleanText: once the runs of blanks are single blanks no line break is
\* left for the second replace
CleanText(text) == Trim(CollapseBlanks(text))

\* the loop of _extractMainContent from selector i on: [selected, content]
RECURSIVE SelectFromSelector(_, _, _)
SelectFromSelector(doc, min, i) ==
    IF i > Len(Selectors)
    THEN [selected |-> "body", content |-> CleanText(Trim(doc.body))]
    ELSE LET selector == Selectors[i]
             element  == doc.elements[selector]
         IN  IF element # Absent /\ Len(Trim(element)) >= min
             THEN [selected |-> selector, content |-> CleanText(Trim(element))]
             ELSE SelectFromSelector(doc, min, i + 1)

ExtractMainContent(doc, min) == SelectFromSelector(doc, min, 1)

TextChars == {" ", "a"}

Texts == BoundedSeq(TextChars, MaxTextLen)

\* a few texts: nothing but one letter, a text with a run of blanks inside,
\* a text without blanks, a text with blanks around
SampleTexts ==
    {<<"a">>, <<"a", " ", " ", "a">>, <<"a", "a", "a", "a">>,
     <<" ", "a", "a", " ">>}

\* pages with an article of any text, a main of a sample text, and no other
\* content region
Pages ==
    {[elements |-> [sel \in {Selectors[i] : i \in 1..Len(Selectors)} |->
                       IF sel = "article" THEN article
                       ELSE IF sel = "main" THEN main ELSE Absent],
      body |-> body] :
        article \in Texts \cup {Absent},
        main \in SampleTexts \cup {Absent},
        body \in SampleTexts}

ExtractMainContentEntered ==
    /\ page \in Pages
    /\ minContentLength \in 1..MaxMinContentLength
    /\ mcPc = "called"
    /\ content = <<>>
    /\ selected = "none"

IdleContent ==
    /\ page = [elements |-> <<>>, body |-> <<>>]
    /\ minContentLength = 1
    /\ mcPc = "idle"
    /\ content = <<>>
    /\ selected = "none"


ExtractMainContentReturns ==
    /\ mcPc = "called"
    /\ LET chosen == ExtractMainContent(page, minContentLength)
       IN  /\ content' = chosen.content
           /\ selected' = chosen.selected
    /\ mcPc' = "returned"
    /\ UNCHANGED <<page, minContentLength, concurrentVars, runVars,
                   extractVars, fetchVars, validateVars, acquireVars,
                   topicVars, cliVars, ragVars>>

NextContent == ExtractMainContentReturns

----------------------------------------------------------------------------
(* RAGService.search and _enhanceWithWebSearch. The vector store and the   *)
(* language model are outside the service: a lookup returns at most topK   *)
(* chunks, and each of their calls may reject.                             *)

SearchEntered ==
    /\ includeWebSearch \in BOOLEAN
    /\ webSearchResults \in {0, 1}
    /\ topK \in 1..MaxTopK
    /\ rsPc = "embedding"
    /\ relevantChunks = 0
    /\ firstChunks = -1
    /\ lookups = 0
    /\ enrichments = <<>>
    /\ enrichmentFailed = FALSE
    /\ ragAnswer = NoResult
    /\ ragError = NoError

IdleRag ==
    /\ includeWebSearch = FALSE
    /\ webSearchResults = 0
    /\ topK = 1
    /\ rsPc = "idle"
    /\ relevantChunks = 0
    /\ firstChunks = -1
    /\ lookups = 0
    /\ enrichments = <<>>
    /\ enrichmentFailed = FALSE
    /\ ragAnswer = NoResult
    /\ ragError = NoError

IdleRest == IdleConcurrent /\ IdleContent /\ IdleRag

\* const webResults = searchQuery.webSearchResults ?? Math.min(additionalResults, 3)
WebResults(additionalResults) ==
    IF webSearchResults # 0 THEN webSearchResults
    ELSE Min(additionalResults, 3)

\* the statements after the last lookup: the fixed answer when no chunk was
\* found, else the call of generateResponse
AfterLookups(chunks) ==
    IF chunks = 0
    THEN /\ rsPc' = "returned"
         /\ ragAnswer' = RAGResponse(0, 77, TRUE)
    ELSE /\ rsPc' = "generating"
         /\ UNCHANGED ragAnswer

\* generateEmbedding resolves: the first lookup is issued
EmbeddingResolves ==
    /\ rsPc = "embedding"
    /\ rsPc' = "lookup"
    /\ lookups' = lookups + 1
    /\ UNCHANGED <<includeWebSearch, webSearchResults, topK, relevantChunks,
                   firstChunks, enrichments, enrichmentFailed, ragAnswer,
                   ragError, concurrentVars, contentVars, runVars,
                   extractVars, fetchVars, validateVars, acquireVars,
                   topicVars, cliVars>>

\* the first vectorStore.search resolves: the enrichment is started when it
\* is asked for and the chunks are fewer than topK
FirstLookupResolves ==
    /\ rsPc = "lookup"
    /\ \E chunks \in 0..topK :
         /\ relevantChunks' = chunks
         /\ firstChunks' = chunks
         /\ IF includeWebSearch /\ chunks < topK
            THEN /\ rsPc' = "enhancing"
                 /\ enrichments' =
                       Append(enrichments, WebResults(topK - chunks))
                 /\ UNCHANGED ragAnswer
            ELSE /\ AfterLookups(chunks)
                 /\ UNCHANGED enrichments
    /\ UNCHANGED <<includeWebSearch, webSearchResults, topK, lookups,
                   enrichmentFailed, ragError, concurrentVars, contentVars,
                   runVars, extractVars, fetchVars, validateVars,
                   acquireVars, topicVars, cliVars>>

\* addFromWebSearch resolves: the lookup is issued again
EnrichmentResolves ==
    /\ rsPc = "enhancing"
    /\ rsPc' = "relookup"
    /\ lookups' = lookups + 1
    /\ UNCHANGED <<includeWebSearch, webSearchResults, topK, relevantChunks,
                   firstChunks, enrichments, enrichmentFailed, ragAnswer,
                   ragError, concurrentVars, contentVars, runVars,
                   extractVars, fetchVars, validateVars, acquireVars,
                   topicVars, cliVars>>

\* an _enhanceWithWebSearch without its try/catch: the error leaves it and
\* is thrown again by search
EnrichmentRejectsUncaught ==
    /\ rsPc = "enhancing"
    /\ enrichmentFailed' = TRUE
    /\ rsPc' = "thrown"
    /\ ragError' = "enrichment"
    /\ UNCHANGED <<includeWebSearch, webSearchResults, topK, relevantChunks,
                   firstChunks, lookups, enrichments, ragAnswer,
                   concurrentVars, contentVars, runVars,
                   extractVars, fetchVars, validateVars, acquireVars,
                   topicVars, cliVars>>

\* addFromWebSearch rejects (no valid content, a failed search, a failed
\* ingestion): _enhanceWithWebSearch warns and returns, the lookup is
\* issued again
EnrichmentRejects ==
    /\ rsPc = "enhancing"
    /\ enrichmentFailed' = TRUE
    /\ rsPc' = "relookup"
    /\ lookups' = lookups + 1
    /\ UNCHANGED <<includeWebSearch, webSearchResults, topK, relevantChunks,
                   firstChunks, enrichments, ragAnswer, ragError,
                   concurrentVars, contentVars, runVars,
                   extractVars, fetchVars, validateVars, acquireVars,
                   topicVars, cliVars>>

\* the second vectorStore.search resolves
SecondLookupResolves ==
    /\ rsPc = "relookup"
    /\ \E chunks \in 0..topK :
         /\ relevantChunks' = chunks
         /\ AfterLookups(chunks)
    /\ UNCHANGED <<includeWebSearch, webSearchResults, topK, firstChunks,
                   lookups, enrichments, enrichmentFailed, ragError,
                   concurrentVars, contentVars, runVars, extractVars,
                   fetchVars, validateVars, acquireVars, topicVars, cliVars>>

\* generateResponse resolves: the answer over the chunks is returned
GenerateResponseResolves ==
    /\ rsPc = "generating"
    /\ \E len \in {0, 200}, marker \in BOOLEAN :
         ragAnswer' = RAGResponse(relevantChunks, len, marker /\ len > 0)
    /\ rsPc' = "returned"
    /\ UNCHANGED <<includeWebSearch, webSearchResults, topK, relevantChunks,
                   firstChunks, lookups, enrichments, enrichmentFailed,
                   ragError, concurrentVars, contentVars, runVars,
                   extractVars, fetchVars, validateVars, acquireVars,
                   topicVars, cliVars>>

\* generateEmbedding, vectorStore.search or generateResponse rejects: the
\* catch of search throws 'Erreur recherche RAG: ...'
ServiceCallRejects ==
    /\ rsPc \in {"embedding", "lookup", "relookup", "generating"}
    /\ ragError' = rsPc
    /\ rsPc' = "thrown"
    /\ UNCHANGED <<includeWebSearch, webSearchResults, topK, relevantChunks,
                   firstChunks, lookups, enrichments, enrichmentFailed,
                   ragAnswer, concurrentVars, contentVars, runVars,
                   extractVars, fetchVars, validateVars, acquireVars,
                   topicVars, cliVars>>

NextRag ==
    \/ EmbeddingResolves \/ FirstLookupResolves \/ EnrichmentResolves
    \/ EnrichmentRejects \/ SecondLookupResolves \/ GenerateResponseResolves
    \/ ServiceCallRejects

IdleOuter == IdleValidate /\ IdleAcquire /\ IdleTopics /\ IdleCli /\ IdleRest

----------------------------------------------------------------------------
(* Specifications *)

Init == InitRun /\ IdleExtract /\ IdleFetch /\ IdleOuter

Next == NextRun

Spec == Init /\ [][Next]_vars

\* the same run when every awaited call of searchAndExtract settles and the
\* event loop resumes the run
SpecTerminating == Init /\ [][Next]_vars /\ WF_vars(Next)

InitExtract == IdleRun /\ ExtractContentsEntered /\ IdleFetch /\ IdleOuter

SpecExtract == InitExtract /\ [][NextExtract]_vars

InitFetch == IdleRun /\ IdleExtract /\ FetchWithRetryEntered /\ IdleOuter

SpecFetch == InitFetch /\ [][NextFetch]_vars

\* one call of getTopUrls, smartSearch or extractContents
InitValidate ==
    /\ IdleRest
    /\ IdleRun
    /\ IdleCli
    /\ IdleFetch
    /\ IdleAcquire
    /\ IdleTopics
    /\ \/ QueryEntered /\ IdleExtract
       \/ IdleValidate /\ ExtractContentsEntered

SpecValidate == InitValidate /\ [][NextValidate]_vars

\* one call of addFromWebSearch or addFromComprehensiveSearch, the plan of
\* its search being run by _runSearchPlan
InitAcquire ==
    /\ IdleRest
    /\ InitRun
    /\ IdleCli
    /\ IdleExtract
    /\ IdleFetch
    /\ IdleValidate
    /\ IdleTopics
    /\ AcquisitionEntered

SpecAcquire == InitAcquire /\ [][NextAcquire]_vars

\* one call of analyzeTopicRelevance
InitRelevance ==
    /\ IdleRest
    /\ IdleRun
    /\ IdleCli
    /\ IdleExtract
    /\ IdleFetch
    /\ IdleValidate
    /\ IdleAcquire
    /\ RelevanceEntered

SpecRelevance == InitRelevance /\ [][NextRelevance]_vars

\* one query taken through extractTopics, analyzeTopicRelevance and
\* _buildSearchPlan, as smartSearch and comprehensiveSearch do
InitTopics ==
    /\ IdleRest
    /\ IdleRun
    /\ IdleCli
    /\ IdleExtract
    /\ IdleFetch
    /\ IdleValidate
    /\ IdleAcquire
    /\ TopicsEntered

SpecTopics == InitTopics /\ [][NextTopics]_vars

\* one call of handleSearch
InitCli ==
    /\ IdleRest
    /\ IdleRun
    /\ IdleExtract
    /\ IdleFetch
    /\ IdleValidate
    /\ IdleAcquire
    /\ IdleTopics
    /\ HandleSearchEntered

SpecCli == InitCli /\ [][NextCli]_vars

\* two calls of _runSearchPlan on one instance, interleaved at their awaits
InitConcurrent ==
    /\ IdleRun
    /\ IdleExtract
    /\ IdleFetch
    /\ IdleValidate
    /\ IdleAcquire
    /\ IdleTopics
    /\ IdleCli
    /\ IdleContent
    /\ IdleRag
    /\ ConcurrentRunsEntered

SpecConcurrent == InitConcurrent /\ [][NextConcurrent]_vars

\* one call of _extractMainContent on a loaded page
InitContent ==
    /\ IdleRun
    /\ IdleExtract
    /\ IdleFetch
    /\ IdleValidate
    /\ IdleAcquire
    /\ IdleTopics
    /\ IdleCli
    /\ IdleConcurrent
    /\ IdleRag
    /\ ExtractMainContentEntered

SpecContent == InitContent /\ [][NextContent]_vars

\* one call of RAGService.search
InitRag ==
    /\ IdleRun
    /\ IdleExtract
    /\ IdleFetch
    /\ IdleValidate
    /\ IdleAcquire
    /\ IdleTopics
    /\ IdleCli
    /\ IdleConcurrent
    /\ IdleContent
    /\ SearchEntered

SpecRag == InitRag /\ [][NextRag]_vars

----------------------------------------------------------------------------
(* Properties of _runSearchPlan *)

\* the trimmed URLs of a list of ExtractedContent
TrimmedUrls(results) == {Trim(results[i].url) : i \in 1..Len(results)}

\* how many entries of results carry the (trimmed) URL u
Occurrences(results, u) ==
    Cardinality({i \in 1..Len(results) : Trim(results[i].url) = u})

\* C1: the number of accepted results never exceeds desiredResults, after
\* each step and in the value returned.
C1_BudgetNeverExceeded == Len(aggregatedResults) <= desiredResults

\* two steps ran, the second one with fewer slots than its limit asked for,
\* and the run returned with the budget exactly filled
C1_Witness ==
    /\ pc = "returned"
    /\ Len(stepResults) = 2
    /\ Len(stepResults[1].results) >= 1
    /\ Len(stepResults[2].results) >= 1
    /\ searchPlan[2].limit = <<2>>
    /\ Len(aggregatedResults) = desiredResults

\* C2: no two accepted results share a trimmed URL, and every URL of the
\* raw results of a step is in the aggregate exactly once when the step ends.
C2_NoDuplicateUrl ==
    /\ \A i, j \in 1..Len(aggregatedResults) :
         i # j => Trim(aggregatedResults[i].url) # Trim(aggregatedResults[j].url)
    /\ \A u \in TrimmedUrls(stepRawResults) : Occurrences(aggregatedResults, u) = 1

\* the first step accepted one URL; the second step returned the same URL
\* padded with a blank, which is not accepted again
C2_Witness ==
    /\ Len(stepResults) = 2
    /\ stepRawResults = <<SuccessRecord(UrlAPadded)>>
    /\ aggregatedResults = <<SuccessRecord(UrlA)>>
    /\ stepResults[2].results = <<>>

\* C3 (as claimed): a URL whose fetch or extraction failed is never among
\* the accepted results.
C3_FailedNeverAccepted ==
    \A i \in 1..Len(aggregatedResults) : aggregatedResults[i].success

\* C5 (as claimed): the run does not raise when the search lookup of a step
\* fails.
C5_SearchFailureAbsorbed == ~(pc = "raised" /\ failure = "SearchFailed")

\* C6 (as claimed): a step whose search was answered, be it with no URL at
\* all, is a step that ran: its query is in executedQueries and it has a
\* stepResults entry.
C6_ZeroResultStepRecorded ==
    (pc # "awaiting" /\ failure \notin {"SearchFailed", "InvalidUrl"}) =>
        /\ Len(executedQueries) = Len(searchCalls)
        /\ Len(stepResults) = Len(searchCalls)
        /\ pc # "raised"

\* C7: once the accepted count has reached desiredResults no further search
\* is issued and executedQueries does not grow.
C7_NoStepAfterBudget ==
    [][Len(aggregatedResults) >= desiredResults =>
          /\ searchCalls' = searchCalls
          /\ executedQueries' = executedQueries
          /\ pc' # "awaiting"]_vars

\* the budget is filled by the first step and the second step, not optional,
\* was never searched
C7_Witness ==
    /\ pc = "returned"
    /\ Len(aggregatedResults) = desiredResults
    /\ Len(searchPlan) = 2
    /\ ~searchPlan[2].optional
    /\ executedQueries = <<QueryAt(1)>>
    /\ searchCalls = <<[query |-> QueryAt(1), limit |-> desiredResults]>>

\* C8: the limit handed to the backend is max(1, min(step.limit, slots))
\* with a limit, max(1, slots) without, slots = desiredResults - accepted;
\* and the step adds at most min(step.limit, slots) results.
C8_StepLimit ==
    [][LET step  == searchPlan[stepIndex]
           slots == desiredResults - Len(aggregatedResults)
           cap   == IF step.limit # <<>> THEN Min(step.limit[1], slots) ELSE slots
       IN  /\ (pc = "loop" /\ pc' = "awaiting") =>
                 searchCalls' = Append(searchCalls,
                    [query |-> step.query, limit |-> Max(1, cap)])
           /\ (pc = "awaiting" /\ pc' \in {"loop", "returned"}) =>
                 Len(aggregatedResults') - Len(aggregatedResults) <= cap]_vars

\* the second step declares limit 2 with one slot left: it is searched with
\* limit 1 and adds one result
C8_Witness ==
    /\ Len(stepResults) = 2
    /\ searchPlan[2].limit = <<2>>
    /\ Len(stepResults[1].results) = 1
    /\ desiredResults = 2
    /\ searchCalls[2].limit = 1
    /\ Len(stepResults[2].results) = 1

----------------------------------------------------------------------------
(* Properties of extractContents *)

\* C4: extractContents returns once every task has settled, one record per
\* input URL in input order, the extraction of a fulfilled task and a
\* success = false record with the URL and the error of a rejected one; it
\* raises in _validateUrls only, never because a task rejected.
C4_SettleAll ==
    /\ ecPc = "returned" =>
         /\ Len(ecResult) = Len(urls)
         /\ \A i \in 1..Len(urls) :
              /\ taskStatus[i].status # "pending"
              /\ taskStatus[i].status = "fulfilled" =>
                    ecResult[i] = SuccessRecord(urls[i])
              /\ taskStatus[i].status = "rejected" =>
                    ecResult[i] = FailureRecord(urls[i], taskStatus[i].reason)
    /\ ecPc = "raised" => taskStatus = <<>>

\* three URLs, the first and the last task rejected for different reasons,
\* the middle one fulfilled, and the call returned
C4_Witness ==
    /\ ecPc = "returned"
    /\ Len(urls) = 3
    /\ taskStatus[1] = Rejected("HTTP 500")
    /\ taskStatus[2] = Fulfilled
    /\ taskStatus[3] = Rejected("aborted")
    /\ ecResult[2].success

----------------------------------------------------------------------------
(* Properties of _fetchWithRetry *)

Is2xx(status) == status \in 200..299

\* C9: when _fetchWithRetry returns, it returns the body of the attempt k it
\* is in, k <= retryAttempts, which got a 2xx response and is the first
\* attempt that did not fail; exactly k attempts were made and none follows.
\* A non-2xx response is a failed attempt, retried while attempts are left.
C9_FirstSuccessReturns ==
    /\ [](fpc = "returned" =>
            /\ attempt \in 1..retryAttempts
            /\ Len(attemptLog) = attempt
            /\ Is2xx(attemptLog[attempt].response)
            /\ attemptLog[attempt].error = NoError
            /\ \A j \in 1..(attempt - 1) : attemptLog[j].error # NoError
            /\ fetchOutcome = BodyOf(attempt))
    /\ [](\A j \in 1..Len(attemptLog) :
            (attemptLog[j].response # 0 /\ ~Is2xx(attemptLog[j].response)) =>
                /\ attemptLog[j].error # NoError
                /\ (j = Len(attemptLog) /\ j < retryAttempts) =>
                      fpc \in {"delaying", "loopTest", "fetching", "reading"})
    /\ [][fpc = "returned" => UNCHANGED fetchVars]_vars

\* HTTP 500 on attempts 1 and 2, 200 on attempt 3: the body of attempt 3
C9_Witness ==
    /\ fpc = "returned"
    /\ retryAttempts = 3
    /\ Len(attemptLog) = 3
    /\ attemptLog[1].response = 500
    /\ attemptLog[2].response = 500
    /\ attemptLog[3].response = 200
    /\ fetchOutcome = BodyOf(3)

\* C10: never more than retryAttempts attempts; when all of them failed the
\* call throws, after exactly retryAttempts attempts and with no delay after
\* the last, the error of the last attempt; what it returns is the body of
\* an attempt that did not fail.
C10_ExhaustionThrowsLast ==
    /\ Len(attemptLog) <= retryAttempts
    /\ attempt <= retryAttempts + 1
    /\ fpc = "thrown" =>
         /\ Len(attemptLog) = retryAttempts
         /\ \A j \in 1..retryAttempts : attemptLog[j].error # NoError
         /\ retryAttempts >= 1 =>
               fetchOutcome = Error(retryAttempts, attemptLog[retryAttempts].error)
    /\ (/\ Len(attemptLog) = retryAttempts
        /\ \A j \in 1..retryAttempts : attemptLog[j].error # NoError) =>
            fpc \in {"loopTest", "thrown"}
    /\ fpc = "returned" =>
         /\ fetchOutcome.kind = "body"
         /\ attemptLog[fetchOutcome.attempt].error = NoError

\* three attempts failed in three ways; the error thrown is the last one
C10_Witness ==
    /\ fpc = "thrown"
    /\ retryAttempts = 3
    /\ attemptLog[1].error = "network"
    /\ attemptLog[2].error = "body"
    /\ attemptLog[3].error = "HTTP 500"
    /\ fetchOutcome = Error(3, "HTTP 500")

\* C11: an attempt in flight (fetch pending, or the body of its response
\* still being read) never outlasts the configured timeout
C11_AttemptBoundedByTimeout ==
    fpc \in {"fetching", "reading"} => elapsed <= TimeoutTicks

----------------------------------------------------------------------------
(* Properties of the validation at the entry points *)

\* C12: a query that is empty, blank or shorter than 2 characters once
\* trimmed makes getTopUrls and smartSearch reject with the validation error
\* before any search request is issued, and an empty URL list or a list
\* with a malformed URL makes extractContents reject with the validation
\* error before any extraction task (and so any fetch) exists; a rejected
\* call does nothing more.
C12_ValidationFailsFast ==
    /\ (vpc \notin {"idle", "called"} /\ Len(Trim(query)) < 2) =>
          /\ vpc = "raised"
          /\ vError \in {"EmptyQuery", "QueryTooShort"}
          /\ searchesStarted = 0
    /\ (ecPc \notin {"idle", "called"} /\
            (urls = <<>> \/ \E i \in 1..Len(urls) : ~UrlParses(urls[i]))) =>
          /\ ecPc = "raised"
          /\ ecError \in {"EmptyUrlList", "InvalidUrl"}
          /\ taskStatus = <<>>

C12_Witness ==
    /\ ecPc = "raised"
    /\ urls = <<UrlA, UrlRelative, UrlB>>
    /\ ecError = "InvalidUrl"
    /\ taskStatus = <<>>

----------------------------------------------------------------------------
(* Properties of the acquisition boundary *)

\* C13: an acquisition ends with the no-content error exactly when its run
\* gave no usable result: the error is raised only after a completed run
\* that left nothing usable, with no document stored, and a run that left
\* nothing usable without any failed fetch ends with that error and no
\* other.
C13_NoContentIffNothingUsable ==
    apc \in {"returned", "raised"} =>
        /\ aError = "NoContent" =>
              /\ Len(successfulContents) = 0
              /\ pc = "returned"
              /\ documentsAdded = 0
        /\ (Len(successfulContents) = 0 /\ failure # "SearchFailed") =>
              aError = "NoContent"

----------------------------------------------------------------------------
(* Properties of utils/stopwords *)

\* the permutations of 1..n
IndexPermutations(n) == {f \in [1..n -> 1..n] : \A i, j \in 1..n : f[i] = f[j] => i = j}

\* C19: analyzeTopicRelevance returns one entry per input topic, in
\* descending order of relevanceScore with equal scores left in input order,
\* every score within 0..100, and the category is high exactly from 70,
\* medium exactly from 40 up to 70, low below.
C19_RelevanceSortedAndBounded ==
    tpc = "ranked" =>
        /\ Len(relevanceAnalysis) = Len(topics)
        /\ \E f \in IndexPermutations(Len(topics)) :
              /\ \A k \in DOMAIN relevanceAnalysis :
                    relevanceAnalysis[k].topic = topics[f[k]]
              /\ \A k, l \in DOMAIN relevanceAnalysis :
                    k < l =>
                      \/ relevanceAnalysis[k].relevanceScore
                            > relevanceAnalysis[l].relevanceScore
                      \/ /\ relevanceAnalysis[k].relevanceScore
                              = relevanceAnalysis[l].relevanceScore
                         /\ f[k] < f[l]
        /\ \A k \in DOMAIN relevanceAnalysis :
              LET e == relevanceAnalysis[k]
              IN  /\ e.relevanceScore \in 0..100
                  /\ e.category = "high" <=> e.relevanceScore >= 70
                  /\ e.category = "medium" <=>
                        (e.relevanceScore >= 40 /\ e.relevanceScore < 70)
                  /\ e.category = "low" <=> e.relevanceScore < 40

C19_Witness ==
    /\ tpc = "ranked"
    /\ topics = <<Words.ciel, Words.gpt4o, Words.gpt4>>
    /\ relevanceAnalysis =
          <<[topic |-> Words.gpt4o, relevanceScore |-> 100, category |-> "high"],
            [topic |-> Words.gpt4, relevanceScore |-> 100, category |-> "high"],
            [topic |-> Words.ciel, relevanceScore |-> 22, category |-> "low"]>>

\* the set of the elements of a sequence
Range(seq) == {seq[i] : i \in DOMAIN seq}

\* what C17 asks of one ExtractedTopics
StatsConsistent(analysis, maxTopics) ==
    /\ analysis.stats.stopWordsRemoved = Len(analysis.removedWords)
    /\ analysis.stats.finalWordCount = Len(analysis.topics)
    /\ Len(analysis.topics) <= maxTopics
    /\ analysis.cleanedQuery = Join(analysis.topics)

C18_Idempotent ==
    tpc = "reExtracted" => Range(reAnalysis.topics) = Range(topicAnalysis.topics)

----------------------------------------------------------------------------
(* Properties of _shouldFallbackToOriginal and _buildSearchPlan *)

\* the decision taken by _shouldFallbackToOriginal, as the plan shows it:
\* the primary step keeps the original query
FellBack == plan # <<>> /\ plan[1].reason = "original"

\* the last two cases of the fallback decision, startsWithQuestionWord given
FallbackCases(startsWithQuestionWord) ==
    LET stats == topicAnalysis.stats
    IN  \/ topicAnalysis.cleanedQuery = <<>>
        \/ /\ startsWithQuestionWord
           /\ stats.originalWordCount > 0
           /\ 10 * stats.stopWordsRemoved > 4 * stats.originalWordCount
        \/ /\ stats.finalWordCount <= 2
           /\ stats.originalWordCount > 0
           /\ 2 * stats.stopWordsRemoved >= stats.originalWordCount

\* C14, as stated: the decision is true exactly when the cleaned query is
\* empty, or the original query starts with a question word and the removal
\* ratio exceeds 0.4, or at most 2 topics are left and the ratio is at
\* least 0.5.
C14_FallbackIffStated ==
    tpc = "planned" =>
        (FellBack <=>
            FallbackCases(\E word \in QuestionWords :
                StartsWith(ToLowerCase(Trim(originalQuery)), word)))

\* C14, amended: the same, the question word being followed by a blank in
\* the trimmed, lowercased original query.
C14_FallbackIffQuestionWordThenBlank ==
    tpc = "planned" =>
        (FellBack <=>
            FallbackCases(\E word \in QuestionWords :
                StartsWith(ToLowerCase(Trim(originalQuery)), word \o <<" ">>)))

C14_Witness ==
    /\ tpc = "planned"
    /\ originalQuery = Join(<<Words.quiCapital>> \o Repeat(Words.le, 2) \o ContentWords)
    /\ topicAnalysis.stats.finalWordCount = 3
    /\ topicAnalysis.stats.stopWordsRemoved = 3
    /\ FellBack
    /\ plan[1].query = originalQuery

\* the query the decision makes primary
PrimaryQuery(fallback) ==
    IF fallback THEN Trim(originalQuery) ELSE topicAnalysis.cleanedQuery

\* the other of the two queries
OtherQuery(fallback) ==
    IF fallback THEN topicAnalysis.cleanedQuery ELSE Trim(originalQuery)

\* C15: the first step of a plan is the primary one, the trimmed original
\* query when the decision is to fall back and the cleaned query otherwise,
\* and the only step that is not optional; the other of the two queries,
\* when non-empty and different, is the second step, optional, with limit
\* max(2, ceil(desiredResults / 2)); otherwise no secondary step exists.
C15_PrimaryThenSecondary ==
    tpc = "planned" =>
        LET fallback == ShouldFallbackToOriginal(originalQuery, topicAnalysis)
            primary == PrimaryQuery(fallback)
            other == OtherQuery(fallback)
        IN  /\ Len(plan) >= 1
            /\ plan[1].query = primary
            /\ ~plan[1].optional
            /\ \A i \in 2..Len(plan) : plan[i].optional
            /\ topicAnalysis.cleanedQuery = <<>> =>
                  plan[1].query = Trim(originalQuery)
            /\ IF other # <<>> /\ other # primary
               THEN /\ Len(plan) >= 2
                    /\ plan[2].query = other
                    /\ plan[2].reason \in {"noStopWords", "context"}
                    /\ plan[2].limit =
                          <<Max(2, (planInput.desiredResults + 1) \div 2)>>
                    /\ \A i \in 3..Len(plan) : plan[i].reason = "priority"
               ELSE \A i \in 2..Len(plan) : plan[i].reason = "priority"

C15_Witness ==
    /\ tpc = "planned"
    /\ originalQuery = Join(<<Words.qui, Words.le>> \o ContentWords)
    /\ planInput.desiredResults = 5
    /\ Len(plan) >= 2
    /\ plan[1].query = Join(ContentWords)
    /\ plan[2].query = originalQuery
    /\ plan[2].limit = <<3>>

\* C16: after the primary and secondary steps come at most
\* maxHighPriorityTopics steps, none when that number is 0 or less; their
\* queries are the first prioritized topics, in order, among those equal
\* neither to the primary nor to the secondary query; each is optional with
\* limit max(1, ceil(desiredResults / 3)).
C16_PrioritySteps ==
    tpc = "planned" =>
        LET fallback == ShouldFallbackToOriginal(originalQuery, topicAnalysis)
            primary == PrimaryQuery(fallback)
            other == OtherQuery(fallback)
            first == IF other # <<>> /\ other # primary THEN 3 ELSE 2
            steps == SubSeq(plan, first, Len(plan))
            IsOther(topic) == topic # <<>> /\ topic # primary /\ topic # other
            candidates == SelectSeq(planInput.prioritized, IsOther)
        IN  /\ Len(steps) <= Max(0, planInput.maxHighPriorityTopics)
            /\ planInput.maxHighPriorityTopics <= 0 => steps = <<>>
            /\ Len(steps) <= Len(candidates)
            /\ \A i \in DOMAIN steps :
                  /\ steps[i].query = candidates[i]
                  /\ steps[i].reason = "priority"
                  /\ steps[i].optional
                  /\ steps[i].limit =
                        <<Max(1, (planInput.desiredResults + 2) \div 3)>>
                  /\ steps[i].query # primary
                  /\ steps[i].query # other

C16_Witness ==
    /\ tpc = "planned"
    /\ originalQuery = Join(<<Words.paris, Words.gpt4>>)
    /\ planInput.maxHighPriorityTopics = 2
    /\ planInput.desiredResults = 5
    /\ Len(plan) = 3
    /\ plan[1].query = originalQuery
    /\ plan[2] = PlanStep(Words.gpt4, "priority", TRUE, <<2>>)
    /\ plan[3] = PlanStep(Words.paris, "priority", TRUE, <<2>>)

----------------------------------------------------------------------------
(* Properties of handleSearch *)

\* C20: once the initial local answer is known, the web acquisition is
\* started exactly when that answer has fewer than 3 sources, or includes
\* the no-information marker, or is shorter than 200 characters; otherwise
\* the initial answer is displayed and no acquisition is ever run.
C20_GateTriggersEnrichment ==
    ~initialResult.none =>
        LET insufficient ==
                \/ initialResult.sources < 3
                \/ initialResult.marker
                \/ initialResult.answerLength < 200
        IN  /\ needsMoreContent <=> insufficient
            /\ webAcquisitions = (IF insufficient THEN 1 ELSE 0)
            /\ ~insufficient =>
                  /\ hsPc = "displayed"
                  /\ displayed = "initial"
                  /\ localSearches = 1
            /\ insufficient => displayed # "initial"

C20_Witness ==
    /\ hsPc = "displayed"
    /\ initialResult = RAGResponse(3, 200, FALSE)
    /\ displayed = "initial"
    /\ webAcquisitions = 0

\* C21: one request runs the local query first, then at most one
\* acquisition (only when the gate is true), then at most one local
\* re-query, which comes after the acquisition and whose answer is the one
\* displayed; the gate is not evaluated on that answer, so no second
\* acquisition starts even when the final answer is still insufficient.
C21_OneEnrichmentRound ==
    /\ webAcquisitions <= 1
    /\ localSearches <= 2
    /\ webAcquisitions = 1 => needsMoreContent /\ ~initialResult.none
    /\ localSearches = 2 => webAcquisitions = 1
    /\ hsPc = "searching" => localSearches = 1 /\ webAcquisitions = 0
    /\ hsPc = "acquiring" => localSearches = 1 /\ webAcquisitions = 1
    /\ hsPc = "answering" => localSearches = 2 /\ finalResult.none
    /\ ~finalResult.none =>
          /\ hsPc = "displayed"
          /\ displayed = "final"
          /\ localSearches = 2
          /\ webAcquisitions = 1
    /\ displayed = "final" => ~finalResult.none
    /\ hsPc = "displayed" => ~ENABLED NextCli

C21_Witness ==
    /\ hsPc = "displayed"
    /\ displayed = "final"
    /\ NeedsMoreContent(finalResult)
    /\ localSearches = 2
    /\ webAcquisitions = 1

----------------------------------------------------------------------------
\* the results of the recorded steps, one after the other
RECURSIVE ResultsOf(_)
ResultsOf(steps) ==
    IF steps = <<>> THEN <<>>
    ELSE Head(steps).results \o ResultsOf(Tail(steps))

\* C22: the steps of one run are processed one at a time, in plan order: at
\* most one search is not yet completed, and whenever the search of a step
\* has been issued every search issued before it has completed, its new
\* results are in the accumulator and their URLs are in the seen-URL set.
C22_StepsSequential ==
    LET issued == Len(searchCalls)
        done   == Len(stepResults)
    IN  /\ issued - done \in {0, 1}
        /\ issued - done = 1 <=> pc \in {"awaiting", "raised"}
        /\ Len(executedQueries) = done
        /\ \A k \in 1..done : searchCalls[k].query = stepResults[k].step.query
        /\ \A k \in 1..issued : \A j \in 1..issued :
              k < j => \E a \in 1..Len(searchPlan) : \E b \in 1..Len(searchPlan) :
                          /\ a < b
                          /\ searchCalls[k].query = searchPlan[a].query
                          /\ searchCalls[j].query = searchPlan[b].query
        /\ issued - done = 1 =>
              searchCalls[issued].query = searchPlan[stepIndex].query
        /\ aggregatedResults = ResultsOf(stepResults)
        /\ TrimmedUrls(aggregatedResults) \subseteq seenUrls

\* the search of the second step is pending after a first step that
\* accepted a result
C22_Witness ==
    /\ pc = "awaiting"
    /\ Len(searchCalls) = 2
    /\ Len(stepResults) = 1
    /\ stepResults[1].results # <<>>
    /\ aggregatedResults = stepResults[1].results

----------------------------------------------------------------------------
\* a call of _runSearchPlan carried to its return with no other call around
RECURSIVE RunAlone(_, _)
RunAlone(run, responses) ==
    IF run.pc = "returned" THEN run
    ELSE IF run.pc = "loop" THEN RunAlone(IterationHead(run), responses)
    ELSE LET step == run.searchPlan[run.stepIndex]
             raw  == SearchAndExtract(responses[step.query], step,
                                      run.remainingSlots)
         IN  RunAlone(IterationTail(run, run.seenUrls, raw), responses)

\* C23: two calls of _runSearchPlan interleaved on one instance do not see
\* each other: wherever a call stands, what it has accumulated is what it
\* accumulates alone on the same backend answers, so what it returns
\* (results, executedQueries, stepResults) is what it returns alone, and a
\* URL accepted by the other call is still accepted by this one.
C23_RunsShareNothing ==
    \A r \in RunIds :
        LET alone == RunAlone(RunLocals(runs[r].searchPlan,
                                        runs[r].desiredResults), backend)
            here  == RunAlone(runs[r], backend)
        IN  /\ here.aggregatedResults = alone.aggregatedResults
            /\ here.executedQueries = alone.executedQueries
            /\ here.stepResults = alone.stepResults
            /\ runs[r].pc = "returned" =>
                  /\ runs[r].aggregatedResults = alone.aggregatedResults
                  /\ runs[r].executedQueries = alone.executedQueries
                  /\ runs[r].stepResults = alone.stepResults

\* both calls are in progress at their second step, and each has accepted
\* the same URL at its first step
C23_Witness ==
    /\ \A r \in RunIds :
          /\ runs[r].pc = "awaiting"
          /\ runs[r].stepIndex = 2
          /\ runs[r].aggregatedResults = <<SuccessRecord(UrlA)>>

----------------------------------------------------------------------------
\* C24: when every backend call settles, a run ends, having issued at most
\* one search per step of the plan and none twice; when it returns, either
\* the budget is exactly filled or every step of the plan has been searched.
C24_TerminatesByBudgetOrPlan ==
    /\ [](/\ Len(searchCalls) <= Len(searchPlan)
          /\ \A i \in 1..Len(searchCalls) : \A j \in 1..Len(searchCalls) :
                i # j => searchCalls[i].query # searchCalls[j].query
          /\ pc = "returned" =>
                \/ AcceptedCount = desiredResults
                \/ /\ stepIndex > Len(searchPlan)
                   /\ Len(executedQueries) = Len(searchPlan))
    /\ <>(pc \in {"returned", "raised"})

\* the run returned with the budget not filled, its two steps searched
C24_Witness ==
    /\ pc = "returned"
    /\ AcceptedCount < desiredResults
    /\ Len(searchPlan) = 2
    /\ Len(searchCalls) = 2
    /\ Len(executedQueries) = 2
    /\ stepIndex = 3

----------------------------------------------------------------------------
\* C25: the fetcher waits only between attempts, retryDelay * n after the
\* failed attempt n when n < retryAttempts: one wait per failed attempt that
\* is not the last one allowed, attempt n + 1 starts after the wait that
\* follows attempt n, and no wait follows a success or the last failure.
C25_LinearBackoffBetweenAttempts ==
    LET failed == {k \in 1..Len(attemptLog) : attemptLog[k].error # NoError}
        waited == {k \in failed : k < retryAttempts}
    IN  /\ Len(delays) = Cardinality(waited)
        /\ \A i \in 1..Len(delays) :
              /\ delays[i].after = i
              /\ i \in waited
              /\ delays[i].ms = retryDelay * i
        /\ fpc = "delaying" =>
              /\ attempt = Len(attemptLog)
              /\ attempt \in waited
              /\ Len(delays) = attempt
        /\ fpc \in {"fetching", "reading"} =>
              /\ Len(attemptLog) = attempt - 1
              /\ Len(delays) = attempt - 1
        /\ fpc = "returned" =>
              /\ attemptLog[Len(attemptLog)].error = NoError
              /\ Len(delays) = Len(attemptLog) - 1
        /\ fpc = "thrown" /\ retryAttempts >= 1 =>
              /\ Len(attemptLog) = retryAttempts
              /\ Len(delays) = retryAttempts - 1

\* three failed attempts with retryDelay 2: waits of 2 and 4, none after
\* the third
C25_Witness ==
    /\ fpc = "thrown"
    /\ retryAttempts = 3
    /\ retryDelay = 2
    /\ delays = <<[after |-> 1, ms |-> 2], [after |-> 2, ms |-> 4]>>

----------------------------------------------------------------------------
\* C26: the text returned is that of the first selector, in the order of
\* the list, whose text once its blanks are collapsed has at least
\* minContentLength characters, and the text of the body only when no
\* selector has one; so a text returned from a selector has at least
\* minContentLength characters.
C26_FirstQualifyingSelector ==
    mcPc = "returned" =>
        LET Qualifies(i) ==
                /\ page.elements[Selectors[i]] # Absent
                /\ Len(CleanText(page.elements[Selectors[i]])) >= minContentLength
            qualifying == {i \in 1..Len(Selectors) : Qualifies(i)}
        IN  /\ qualifying = {} =>
                  /\ selected = "body"
                  /\ content = CleanText(page.body)
            /\ qualifying # {} =>
                  LET first == CHOOSE i \in qualifying :
                                  \A j \in qualifying : i <= j
                  IN  /\ selected = Selectors[first]
                      /\ content = CleanText(page.elements[Selectors[first]])
            /\ selected # "body" => Len(content) >= minContentLength

----------------------------------------------------------------------------
\* s is t with some elements left out, the others in the order of t
RECURSIVE IsSubsequence(_, _)
IsSubsequence(s, t) ==
    IF s = <<>> THEN TRUE
    ELSE IF t = <<>> THEN FALSE
    ELSE IF Head(s) = Head(t) THEN IsSubsequence(Tail(s), Tail(t))
    ELSE IsSubsequence(s, Tail(t))

\* C27: executedQueries lists queries of the plan in plan order,
\* stepResults has one entry per executed query in the same order, the
\* results are the results of the entries one after the other, and the
\* results of a step are in the order the backend returned them.
C27_OrderPreserved ==
    /\ IsSubsequence(executedQueries,
                     [i \in 1..Len(searchPlan) |-> searchPlan[i].query])
    /\ Len(stepResults) = Len(executedQueries)
    /\ \A i \in 1..Len(stepResults) :
          stepResults[i].step.query = executedQueries[i]
    /\ aggregatedResults = ResultsOf(stepResults)
    /\ stepResults # <<>> =>
          IsSubsequence(stepResults[Len(stepResults)].results, stepRawResults)

\* the run returned after two steps that each gave one result
C27_Witness ==
    /\ pc = "returned"
    /\ executedQueries = <<QueryAt(1), QueryAt(2)>>
    /\ Len(stepResults[1].results) = 1
    /\ stepResults[2].results = stepRawResults
    /\ Len(stepRawResults) = 1
    /\ aggregatedResults = stepResults[1].results \o stepResults[2].results

----------------------------------------------------------------------------
\* C28: each token of the query is recorded in removedWords (when shorter
\* than minWordLength or a stop word) or accepted as a topic, never both
\* and never neither: removedWords is the tokens that are short or stop
\* words, in order, the topics are the first maxTopics of the others, and
\* when the cap cuts nothing
\* originalWordCount = stopWordsRemoved + finalWordCount.
C28_TokensPartitioned ==
    tpc \in {"extracted", "reExtracted", "ranked", "planned"} =>
        LET tokens == SplitWords(ReplaceBySpace(ToLowerCase(originalQuery)))
            stop ==
                (IF options.language \in {"fr", "both"}
                 THEN FRENCH_STOP_WORDS ELSE {})
                \cup (IF options.language \in {"en", "both"}
                      THEN ENGLISH_STOP_WORDS ELSE {})
                \cup {ToLowerCase(w) : w \in options.customStopWords}
            Dropped(token) ==
                Len(token) < options.minWordLength \/ token \in stop
            others == {i \in 1..Len(tokens) : ~Dropped(tokens[i])}
            stats  == topicAnalysis.stats
        IN  /\ stats.originalWordCount = Len(tokens)
            /\ topicAnalysis.removedWords = SelectSeq(tokens, Dropped)
            /\ Len(topicAnalysis.topics) =
                  Min(Cardinality(others), options.maxTopics)
            /\ stats.originalWordCount =
                  Len(topicAnalysis.removedWords) + Cardinality(others)
            /\ Cardinality(others) <= options.maxTopics =>
                  stats.originalWordCount =
                      stats.stopWordsRemoved + stats.finalWordCount

\* four tokens, two of them stop words, and a cap that cuts nothing
C28_Witness ==
    /\ tpc = "extracted"
    /\ originalQuery = Join(<<Words.qui, Words.le, Words.ciel, Words.bleu>>)
    /\ options.maxTopics = 10
    /\ options.language = "both"
    /\ topicAnalysis.removedWords = <<Words.qui, Words.le>>
    /\ Len(topicAnalysis.topics) = 2
    /\ topicAnalysis.stats.originalWordCount = 4
    /\ topicAnalysis.stats.stopWordsRemoved = 2
    /\ topicAnalysis.stats.finalWordCount = 2

----------------------------------------------------------------------------
\* C29: the plan given to _runSearchPlan, made of the steps of
\* _buildSearchPlan and of the combined variants comprehensiveSearch adds,
\* has no query in two steps.
C29_PlanQueriesDistinct ==
    tpc = "planned" =>
        \A i \in 1..Len(handedPlan) : \A j \in 1..Len(handedPlan) :
            i # j => handedPlan[i].query # handedPlan[j].query

----------------------------------------------------------------------------
\* C30: a search runs the web enrichment at most once, only when it is
\* asked for and the first lookup returned fewer than topK chunks, and then
\* repeats the lookup once; an enrichment that fails is never the error
\* search throws: the lookup is repeated all the same and the answer
\* returned is built from the chunks it finds, the no-information answer
\* when it finds none.
C30_EnrichmentOnceAndSwallowed ==
    /\ Len(enrichments) <= 1
    /\ lookups <= 2
    /\ Len(enrichments) = 1 =>
          /\ includeWebSearch
          /\ firstChunks >= 0
          /\ firstChunks < topK
    /\ lookups = 2 <=> (Len(enrichments) = 1 /\ rsPc # "enhancing")
    /\ ragError # "enrichment"
    /\ enrichmentFailed =>
          /\ Len(enrichments) = 1
          /\ lookups = 2
          /\ rsPc \in {"relookup", "generating", "returned", "thrown"}
          /\ rsPc = "thrown" => ragError \in {"relookup", "generating"}
    /\ rsPc = "returned" =>
          /\ ragAnswer.sources = relevantChunks
          /\ relevantChunks = 0 <=> ragAnswer = RAGResponse(0, 77, TRUE)
          /\ ragError = NoError

\* the enrichment failed, the second lookup found nothing and the
\* no-information answer was returned
C30_Witness ==
    /\ rsPc = "returned"
    /\ includeWebSearch
    /\ enrichmentFailed
    /\ lookups = 2
    /\ relevantChunks = 0
    /\ ragAnswer = RAGResponse(0, 77, TRUE)

====
